---- MODULE Spec2Model ----
(***************************************************************************)
(* A model of the beam-calculator analysis engine (solveBeam and its       *)
(* helpers) and of the data it works on.                                   *)
(*                                                                         *)
(* Numbers.  The program computes with IEEE doubles.  The model computes   *)
(* with exact rationals: a number is a pair <<n, d>> in lowest terms with  *)
(* d > 0.  The non-finite doubles are kept: <<1, 0>> is +Infinity,         *)
(* <<-1, 0>> is -Infinity and <<0, 0>> is NaN, and the arithmetic below    *)
(* produces and propagates them as IEEE arithmetic does (x/0, Inf-Inf,     *)
(* 0*Inf, comparisons with NaN false).  Rounding error of the doubles and  *)
(* the sign of zero are not modelled.  An absent optional field of a       *)
(* record (undefined) is the pair UNDEF.                                   *)
(*                                                                         *)
(* Evaluation.  A const or let of the program is a Let here: the value is  *)
(* computed once and bound, and what follows reads the bound value.  The   *)
(* operators on numbers bind their arguments in the same way.  An          *)
(* operator whose name ends in V expects arguments that are bound.         *)
(***************************************************************************)
EXTENDS Integers, Sequences, FiniteSets, TLC

VARIABLES
    beam,        \* the BeamConfig: the one handed to solveBeam, the one the App holds
    forces,      \* solveBeam's locals once its station loop has ended (line 151)
    result,      \* the AnalysisResult solveBeam returns, Null before it returns
    pc,          \* "start", "forces" (solveBeam at line 151), "done" (returned)
    solverError, \* App: the message of the solver's exception [message], or Null
    activeTab,   \* App: "editor" or "analysis"
    drag,        \* BeamDesigner: the DragMode [kind, id], or Null
    selected,    \* BeamDesigner: the id selected, as [id |-> id], or Null
    dblEdit,     \* BeamDesigner: the value edited in place [id, field], or Null
    edits        \* the number of times the editor has set the beam

vars == <<beam, forces, result, pc, solverError, activeTab, drag, selected, dblEdit, edits>>

\* null.  The states that are null or an object are compared with it, so it
\* is an object of its own.
Null == [null |-> TRUE]

(* ------------------------------- binding ------------------------------- *)

\* the element of a set of one element
Only(S) == CHOOSE r \in S : TRUE

\* const x = e; F(x)
Let(e, F(_)) == CHOOSE r \in {F(x) : x \in {e}} : TRUE

Let2(e1, e2, F(_, _)) == CHOOSE r \in {F(x, y) : x \in {e1}, y \in {e2}} : TRUE

Let3(e1, e2, e3, F(_, _, _)) ==
    CHOOSE r \in {F(x, y, z) : x \in {e1}, y \in {e2}, z \in {e3}} : TRUE

(* ------------------------------ numbers -------------------------------- *)

Abs(n) == IF n < 0 THEN -n ELSE n

RECURSIVE GCD(_, _)
GCDV(a, b) == IF b = 0 THEN a ELSE GCD(b, a % b)

GCD(a, b) == Only({GCDV(x, y) : x \in {a}, y \in {b}})

NormV(n, d) ==
    IF d = 1 THEN <<n, 1>>
    ELSE IF n = 0 THEN <<0, 1>>
    ELSE Let(GCD(Abs(n), d), LAMBDA g : <<n \div g, d \div g>>)

Norm(n, d) == Only({NormV(x, y) : x \in {n}, y \in {d}})

R(n) == <<n, 1>>
Q(n, d) == Norm(n, d)
Zero == <<0, 1>>
NaN == <<0, 0>>
PosInf == <<1, 0>>
NegInf == <<-1, 0>>
UNDEF == <<0, -1>>

IsNaN(a) == a = NaN
IsFinite(a) == a[2] > 0
Sign(a) == IF a[1] > 0 THEN 1 ELSE IF a[1] < 0 THEN -1 ELSE 0

\* a ?? b
Coalesce(a, b) == Let(a, LAMBDA v : IF v = UNDEF THEN b ELSE v)

NegV(a) == <<-a[1], a[2]>>

Neg(a) == Only({NegV(x) : x \in {a}})

\* The sum of finite a and b of unlike denominators: whole parts and
\* fractions apart, to stay within the integers of TLC wherever the sum does.
AddUnlike(a, b) ==
    Let(GCD(a[2], b[2]), LAMBDA g :
    Let2((a[1] \div a[2]) + (b[1] \div b[2]),
         Norm((a[1] % a[2]) * (b[2] \div g) + (b[1] % b[2]) * (a[2] \div g),
              (a[2] \div g) * b[2]),
         LAMBDA whole, frac : <<whole * frac[2] + frac[1], frac[2]>>))

AddV(a, b) ==
    IF a[2] = 0 \/ b[2] = 0
    THEN IF IsNaN(a) \/ IsNaN(b) THEN NaN
         ELSE IF a[2] = 0 /\ b[2] = 0 THEN (IF a = b THEN a ELSE NaN)
         ELSE IF a[2] = 0 THEN a ELSE b
    ELSE IF a[2] = b[2] THEN Norm(a[1] + b[1], a[2])
    ELSE AddUnlike(a, b)

Add(a, b) == Only({AddV(x, y) : x \in {a}, y \in {b}})

Sub(a, b) == Add(a, Neg(b))

MulV(a, b) ==
    IF a[2] = 0 \/ b[2] = 0
    THEN IF IsNaN(a) \/ IsNaN(b) \/ Sign(a) = 0 \/ Sign(b) = 0 THEN NaN
         ELSE <<Sign(a) * Sign(b), 0>>
    ELSE IF a[1] = 0 \/ b[1] = 0 THEN Zero
    ELSE IF a[2] = 1 /\ b[2] = 1 THEN <<a[1] * b[1], 1>>
    ELSE Let2(GCD(Abs(a[1]), b[2]), GCD(Abs(b[1]), a[2]), LAMBDA g1, g2 :
             <<(a[1] \div g1) * (b[1] \div g2), (a[2] \div g2) * (b[2] \div g1)>>)

Mul(a, b) == Only({MulV(x, y) : x \in {a}, y \in {b}})

DivV(a, b) ==
    IF IsNaN(a) \/ IsNaN(b) THEN NaN
    ELSE IF b[2] = 0 THEN (IF a[2] = 0 THEN NaN ELSE Zero)
    ELSE IF b[1] = 0 THEN (IF Sign(a) = 0 THEN NaN ELSE <<Sign(a), 0>>)
    ELSE MulV(a, IF b[1] > 0 THEN <<b[2], b[1]>> ELSE <<-b[2], -b[1]>>)

Div(a, b) == Only({DivV(x, y) : x \in {a}, y \in {b}})

LtV(a, b) ==
    IF IsNaN(a) \/ IsNaN(b) \/ a = b THEN FALSE
    ELSE IF a = NegInf \/ b = PosInf THEN TRUE
    ELSE IF a = PosInf \/ b = NegInf THEN FALSE
    ELSE IF a[2] = b[2] THEN a[1] < b[1]
    ELSE IF (a[1] \div a[2]) # (b[1] \div b[2])
    THEN (a[1] \div a[2]) < (b[1] \div b[2])
    ELSE Let(GCD(a[2], b[2]), LAMBDA g :
             (a[1] % a[2]) * (b[2] \div g) < (b[1] % b[2]) * (a[2] \div g))

Lt(a, b) == Only({LtV(x, y) : x \in {a}, y \in {b}})

LeV(a, b) == ~IsNaN(a) /\ ~IsNaN(b) /\ (a = b \/ LtV(a, b))

Le(a, b) == Only({LeV(x, y) : x \in {a}, y \in {b}})

Gt(a, b) == Lt(b, a)
Ge(a, b) == Le(b, a)

\* Math.abs
AbsR(a) == Let(a, LAMBDA v : <<Abs(v[1]), v[2]>>)

\* Math.min
MinR(a, b) ==
    Let2(a, b, LAMBDA u, v :
        IF IsNaN(u) \/ IsNaN(v) THEN NaN ELSE IF LeV(u, v) THEN u ELSE v)

RECURSIVE DivPow10(_, _)
DivPow10V(d, k) == IF k = 0 \/ d = 0 THEN d ELSE DivPow10(d \div 10, k - 1)

DivPow10(d, k) == Only({DivPow10V(x, y) : x \in {d}, y \in {k}})

\* a > 1e-k, for the tolerances 1e-10 and 1e-12 of the solver: n/d > 10^-k
\* iff n > d / 10^k iff n > floor(d / 10^k), n being an integer.
GtTol(a, k) ==
    Let(a, LAMBDA v :
        IF v[2] = 0 THEN v = PosInf
        ELSE v[1] > 0 /\ v[1] > DivPow10(v[2], k))

(* ------------------------------ sequences ------------------------------ *)

\* A function over 1..n as a plain sequence.
AsSeq(f) == f \o <<>>

\* supports.find(s => s.type === 'fixed'): the index (from 1) of the first
\* fixed support, 0 when find returns undefined.
RECURSIVE FindFixedFrom(_, _)
FindFixedFromV(supports, i) ==
    IF i > Len(supports) THEN 0
    ELSE IF supports[i].type = "fixed" THEN i
    ELSE FindFixedFrom(supports, i + 1)

FindFixedFrom(supports, i) == Only({FindFixedFromV(x, y) : x \in {supports}, y \in {i}})

FindFixed(supports) == FindFixedFrom(supports, 1)

\* beam.supports.find(s => s.id === supId): the index (from 1), 0 when find
\* returns undefined.
RECURSIVE FindByIdFrom(_, _, _)
FindByIdFromV(supports, supId, i) ==
    IF i > Len(supports) THEN 0
    ELSE IF supports[i].id = supId THEN i
    ELSE FindByIdFrom(supports, supId, i + 1)

FindByIdFrom(supports, supId, i) == Only({FindByIdFromV(x, y, z) : x \in {supports}, y \in {supId}, z \in {i}})

FindById(supports, supId) == FindByIdFrom(supports, supId, 1)

\* [...supports].sort((a, b) => a.position - b.position): a stable sort, by
\* insertion of each element after the last one that is not greater.
RECURSIVE InsertByPosition(_, _)
InsertByPositionV(sorted, s) ==
    IF sorted = <<>> THEN <<s>>
    ELSE IF Lt(s.position, sorted[Len(sorted)].position)
         THEN Append(InsertByPosition(SubSeq(sorted, 1, Len(sorted) - 1), s),
                     sorted[Len(sorted)])
         ELSE Append(sorted, s)

InsertByPosition(sorted, s) == Only({InsertByPositionV(x, y) : x \in {sorted}, y \in {s}})

RECURSIVE SortFrom(_, _, _)
SortFromV(supports, i, acc) ==
    IF i > Len(supports) THEN acc
    ELSE SortFrom(supports, i + 1, InsertByPosition(acc, supports[i]))

SortFrom(supports, i, acc) == Only({SortFromV(x, y, z) : x \in {supports}, y \in {i}, z \in {acc}})

SortByPosition(supports) == SortFrom(supports, 1, <<>>)

(* --------------------------- reaction solver --------------------------- *)

\* xc_local without the guard on the denominator
xc_local_unguarded(L, w1, w2) ==
    Mul(Div(L, R(3)), Div(Add(w1, Mul(R(2), w2)), Add(w1, w2)))

\* getTotalLoads, uvl: the resultant's offset from the span start.
xc_local(L, w1, w2) ==
    Let(Add(w1, w2), LAMBDA denom :
        IF GtTol(denom, 12)
        THEN Mul(Div(L, R(3)), Div(Add(w1, Mul(R(2), w2)), denom))
        ELSE Div(L, R(2)))

\* getTotalLoads, the body of loads.forEach: what one load adds to
\* <<sumFy, sumM>>.
LoadResultant(load, fixedPos) ==
    IF load.type = "point"
    THEN <<load.magnitude, Mul(load.magnitude, Sub(load.position, fixedPos))>>
    ELSE IF load.type = "udl"
    THEN Let(Sub(Coalesce(load.endPosition, load.position), load.position), LAMBDA L :
         Let2(Mul(load.magnitude, L), Add(load.position, Div(L, R(2))), LAMBDA P, cen :
             <<P, Mul(P, Sub(cen, fixedPos))>>))
    ELSE IF load.type = "uvl"
    THEN Let3(Sub(Coalesce(load.endPosition, load.position), load.position),
              load.magnitude, Coalesce(load.endMagnitude, Zero), LAMBDA L, w1, w2 :
             IF Gt(L, Zero)
             THEN Let2(Mul(Div(Add(w1, w2), R(2)), L),
                       Add(load.position, xc_local(L, w1, w2)), LAMBDA P, cen :
                      <<P, Mul(P, Sub(cen, fixedPos))>>)
             ELSE <<Zero, Zero>>)
    ELSE IF load.type = "moment"
    THEN <<Zero, load.magnitude>>
    ELSE <<Zero, Zero>>

\* <<p[1] + q[1], p[2] + q[2]>>
AddPair(p, q) == Let2(p, q, LAMBDA u, v : <<Add(u[1], v[1]), Add(u[2], v[2])>>)

\* loads.forEach from the load i on, sums being <<sumFy, sumM>>
RECURSIVE TotalLoadsFrom(_, _, _, _)
TotalLoadsFromV(loads, fixedPos, i, sums) ==
    IF i > Len(loads) THEN sums
    ELSE TotalLoadsFrom(loads, fixedPos, i + 1,
                        AddPair(sums, LoadResultant(loads[i], fixedPos)))

TotalLoadsFrom(loads, fixedPos, i, sums) ==
    Only({TotalLoadsFromV(loads, fixedPos, j, s) : j \in {i}, s \in {sums}})

\* the forEach of getTotalLoads leaving out the first load
getTotalLoads_skipFirst(loads, fixedPos) ==
    Let(TotalLoadsFrom(loads, fixedPos, 2, <<Zero, Zero>>), LAMBDA s :
        [sumFy |-> s[1], sumM |-> s[2]])
getTotalLoads(loads, fixedPos) ==
    Let(TotalLoadsFrom(loads, fixedPos, 1, <<Zero, Zero>>), LAMBDA s :
        [sumFy |-> s[1], sumM |-> s[2]])

\* solveReactions: the reactions as the entries of the returned object, in
\* insertion order (Mz is UNDEF where the code sets none), and the titles of
\* the steps it pushes (the dash of the titles written as -).
solveReactions(b) ==
    Let(SortByPosition(b.supports), LAMBDA sorted :
    Let(FindFixed(sorted), LAMBDA fixedAt :
        IF fixedAt # 0
        THEN Let2(sorted[fixedAt], getTotalLoads(b.loads, sorted[fixedAt].position),
                  LAMBDA fixed, t :
                 [reactions |-> <<[id |-> fixed.id, Fy |-> t.sumFy, Mz |-> t.sumM]>>,
                  steps |-> <<"2a. Load Resultants", "2b. Reactions - Cantilever">>])
        ELSE IF Len(sorted) = 2
        THEN Let3(sorted[1], sorted[2], getTotalLoads(b.loads, sorted[1].position),
                  LAMBDA s1, s2, t :
             Let(Div(t.sumM, Sub(s2.position, s1.position)), LAMBDA R_s2 :
             Let(Sub(t.sumFy, R_s2), LAMBDA R_s1 :
                 [reactions |-> IF s1.id = s2.id
                                THEN <<[id |-> s2.id, Fy |-> R_s2, Mz |-> UNDEF]>>
                                ELSE <<[id |-> s1.id, Fy |-> R_s1, Mz |-> UNDEF],
                                       [id |-> s2.id, Fy |-> R_s2, Mz |-> UNDEF]>>,
                  steps |-> <<"2a. Load Resultants",
                              "2b. Reactions - Simply Supported">>])))
        ELSE [reactions |-> <<>>,
              steps |-> <<"2b. Reactions - Unable to Solve">>]))

(* ------------------------- effective load list ------------------------- *)

\* A Load; endMagnitude and endPosition are UNDEF where the object has none.
Load(id, type, position, magnitude, endMagnitude, endPosition) ==
    [id |-> id, type |-> type, position |-> position, magnitude |-> magnitude,
     endMagnitude |-> endMagnitude, endPosition |-> endPosition]

\* the entry pushed with the magnitudes Fy and Mz, not -Fy and -Mz
ReactionLoads_downward(b, reac) ==
    Let(FindById(b.supports, reac.id), LAMBDA supAt :
        IF supAt = 0 THEN <<>>
        ELSE (IF GtTol(AbsR(reac.Fy), 10)
              THEN <<Load(<<"reac", reac.id, "y">>, "point",
                          b.supports[supAt].position, reac.Fy, UNDEF, UNDEF)>>
              ELSE <<>>)
             \o
             (IF reac.Mz # UNDEF /\ reac.Mz # Zero /\ ~IsNaN(reac.Mz)
                 /\ GtTol(AbsR(reac.Mz), 10)
              THEN <<Load(<<"reac", reac.id, "m">>, "moment",
                          b.supports[supAt].position, reac.Mz, UNDEF, UNDEF)>>
              ELSE <<>>))

\* What one entry of Object.entries(reactions) pushes onto allLoads.
ReactionLoads(b, reac) ==
    Let(FindById(b.supports, reac.id), LAMBDA supAt :
        IF supAt = 0 THEN <<>>
        ELSE (IF GtTol(AbsR(reac.Fy), 10)
              THEN <<Load(<<"reac", reac.id, "y">>, "point",
                          b.supports[supAt].position, Neg(reac.Fy), UNDEF, UNDEF)>>
              ELSE <<>>)
             \o
             (IF reac.Mz # UNDEF /\ reac.Mz # Zero /\ ~IsNaN(reac.Mz)
                 /\ GtTol(AbsR(reac.Mz), 10)
              THEN <<Load(<<"reac", reac.id, "m">>, "moment",
                          b.supports[supAt].position, Neg(reac.Mz), UNDEF, UNDEF)>>
              ELSE <<>>))

RECURSIVE AllLoadsFrom(_, _, _, _)
AllLoadsFromV(b, reactions, i, acc) ==
    IF i > Len(reactions) THEN acc
    ELSE AllLoadsFrom(b, reactions, i + 1, acc \o ReactionLoads(b, reactions[i]))

AllLoadsFrom(b, reactions, i, acc) ==
    Only({AllLoadsFromV(b, reactions, j, l) : j \in {i}, l \in {acc}})

\* the effective load list with no reaction pushed
allLoads_applied(b, reactions) == b.loads
allLoads(b, reactions) == AllLoadsFrom(b, reactions, 1, b.loads)

(* ---------------------- shear force, bending moment -------------------- *)

points == 500

dx(b) == Div(b.length, R(points))

\* the station counted from 1: x = (i + 1) * dx
StationX_next(b, i) == Mul(R(i + 1), dx(b))

\* the station i (0..points): x = i * dx
StationX(b, i) == Mul(R(i), dx(b))

\* solveBeam, uvl: the resultant's offset from the span start up to the cut.
x_c_from_a(u_loc, w1, w_x) ==
    Let(Add(w1, w_x), LAMBDA denom :
        IF GtTol(denom, 12)
        THEN Mul(Div(u_loc, R(3)), Div(Add(w1, Mul(R(2), w_x)), denom))
        ELSE Div(u_loc, R(2)))

\* The body of allLoads.forEach at the station x: what one load adds to
\* <<V, M_val>>.
LoadVM(load, x, len) ==
    IF load.type = "point"
    THEN IF Ge(x, load.position)
         THEN Let(Neg(load.magnitude), LAMBDA F :
                  <<F, Mul(F, Sub(x, load.position))>>)
         ELSE <<Zero, Zero>>
    ELSE IF load.type = "moment"
    THEN IF Ge(x, load.position)
         THEN <<Zero, Neg(load.magnitude)>>
         ELSE <<Zero, Zero>>
    ELSE IF load.type = "udl"
    THEN Let2(load.position, Coalesce(load.endPosition, len), LAMBDA a, bb :
             IF Ge(x, a)
             THEN Let(Sub(MinR(x, bb), a), LAMBDA eff_len :
                  Let(Mul(load.magnitude, eff_len), LAMBDA P :
                      <<Neg(P), Mul(Neg(P), Sub(x, Add(a, Div(eff_len, R(2)))))>>))
             ELSE <<Zero, Zero>>)
    ELSE IF load.type = "uvl"
    THEN Let2(load.position, Coalesce(load.endPosition, len), LAMBDA a, bb :
         Let3(load.magnitude, Coalesce(load.endMagnitude, Zero), Sub(bb, a),
              LAMBDA w1, w2, L_load :
             IF Ge(x, a) /\ Gt(L_load, Zero)
             THEN Let(Sub(MinR(x, bb), a), LAMBDA u_loc :
                  Let(Add(w1, Mul(Sub(w2, w1), Div(u_loc, L_load))), LAMBDA w_x :
                  Let(Mul(Div(Add(w1, w_x), R(2)), u_loc), LAMBDA P :
                      <<Neg(P),
                        Mul(Neg(P), Sub(x, Add(a, x_c_from_a(u_loc, w1, w_x))))>>)))
             ELSE <<Zero, Zero>>))
    ELSE <<Zero, Zero>>

\* allLoads.forEach from the load k on, acc being <<V, M_val>>
RECURSIVE StationVMFrom(_, _, _, _, _)
StationVMFromV(loads, x, len, k, acc) ==
    IF k > Len(loads) THEN acc
    ELSE StationVMFrom(loads, x, len, k + 1, AddPair(acc, LoadVM(loads[k], x, len)))

StationVMFrom(loads, x, len, k, acc) ==
    Only({StationVMFromV(loads, x, len, j, s) : j \in {k}, s \in {acc}})

\* <<V, M_val>> at the station x
StationVM(loads, x, len) == StationVMFrom(loads, x, len, 1, <<Zero, Zero>>)

\* The loop over the stations: <<V, M_val>> for i = 0..points.
ShearMoment(b, loads) ==
    AsSeq([k \in 1..(points + 1) |->
              Let(StationX(b, k - 1), LAMBDA x : StationVM(loads, x, b.length))])

\* A series of {x, value} from the values at the stations
Series(b, values) ==
    Let(values, LAMBDA v :
        AsSeq([k \in 1..Len(v) |-> [x |-> StationX(b, k - 1), value |-> v[k]]]))

\* let m = 0; for (...) if (Math.abs(v) > m) m = Math.abs(v), over the
\* values lo..hi in order; the range is halved only to keep the evaluation
\* shallow.
RECURSIVE MaxAbsFrom(_, _, _, _)
\* the loop comparing v, not Math.abs(v), with m
MaxAbsFromV_signed(values, lo, hi, m) ==
    IF lo > hi THEN m
    ELSE IF lo = hi
    THEN IF Gt(values[lo], m) THEN AbsR(values[lo]) ELSE m
    ELSE MaxAbsFrom(values, (lo + hi) \div 2 + 1, hi,
                    MaxAbsFrom(values, lo, (lo + hi) \div 2, m))

MaxAbsFromV(values, lo, hi, m) ==
    IF lo > hi THEN m
    ELSE IF lo = hi
    THEN Let(AbsR(values[lo]), LAMBDA v : IF Gt(v, m) THEN v ELSE m)
    ELSE MaxAbsFrom(values, (lo + hi) \div 2 + 1, hi,
                    MaxAbsFrom(values, lo, (lo + hi) \div 2, m))

MaxAbsFrom(values, lo, hi, m) ==
    Only({MaxAbsFromV(values, i, j, n) : i \in {lo}, j \in {hi}, n \in {m}})

MaxAbs(values) == Let(values, LAMBDA v : MaxAbsFrom(v, 1, Len(v), Zero))

(* -------------------------------- torsion ------------------------------ *)

\* the filter taking the applied moments for the torques
torqueLoads_moments(b) == SelectSeq(b.loads, LAMBDA l : l.type = "moment")

\* beam.loads.filter(l => l.type === 'torque')
torqueLoads(b) == SelectSeq(b.loads, LAMBDA l : l.type = "torque")

\* torqueLoads.reduce((acc, l) => acc + l.magnitude, 0) from the load k on
RECURSIVE SumMagnitudeFrom(_, _, _)
SumMagnitudeFromV(loads, k, acc) ==
    IF k > Len(loads) THEN acc
    ELSE SumMagnitudeFrom(loads, k + 1, Add(acc, loads[k].magnitude))

SumMagnitudeFrom(loads, k, acc) ==
    Only({SumMagnitudeFromV(loads, j, s) : j \in {k}, s \in {acc}})

\* the reaction torque taken by a fixed support wherever it stands
Tx_react_anywhere(b) ==
    IF \E k \in 1..Len(b.supports) : b.supports[k].type = "fixed"
    THEN Let(torqueLoads(b), LAMBDA tl : Neg(SumMagnitudeFrom(tl, 1, Zero)))
    ELSE Zero

\* a fixed support at position 0 exactly takes the whole torque
Tx_react(b) ==
    IF \E k \in 1..Len(b.supports) :
          b.supports[k].type = "fixed" /\ b.supports[k].position = Zero
    THEN Let(torqueLoads(b), LAMBDA tl : Neg(SumMagnitudeFrom(tl, 1, Zero)))
    ELSE Zero

\* T at the station x: the reaction plus the torques at or before x
RECURSIVE TorqueAtFrom(_, _, _, _)
TorqueAtFromV(tl, x, k, T) ==
    IF k > Len(tl) THEN T
    ELSE TorqueAtFrom(tl, x, k + 1,
                      IF Ge(x, tl[k].position) THEN Add(T, tl[k].magnitude) ELSE T)

TorqueAtFrom(tl, x, k, T) ==
    Only({TorqueAtFromV(tl, xs, j, s) : xs \in {x}, j \in {k}, s \in {T}})

\* One pass of the torsion loop, i being the station: phi is the value
\* pushed last (0 before the first).
TwistStep(b, tl, react, i, acc) ==
    Let2(IF acc = <<>> THEN Zero ELSE acc[Len(acc)],
         TorqueAtFrom(tl, StationX(b, i), 1, react), LAMBDA phi, T :
        Append(acc, IF i > 0
                    THEN Add(phi, Mul(Div(T, Mul(b.G, b.J)), dx(b)))
                    ELSE phi))

\* for (i = lo; i <= hi; i++) { ...; angleOfTwist.push(phi) }
RECURSIVE TwistFrom(_, _, _, _, _, _)
TwistFromV(b, tl, react, lo, hi, acc) ==
    IF lo > hi THEN acc
    ELSE IF lo = hi THEN TwistStep(b, tl, react, lo, acc)
    ELSE TwistFrom(b, tl, react, (lo + hi) \div 2 + 1, hi,
                   TwistFrom(b, tl, react, lo, (lo + hi) \div 2, acc))

TwistFrom(b, tl, react, lo, hi, acc) ==
    Only({TwistFromV(b, tl, react, i, j, s) : i \in {lo}, j \in {hi}, s \in {acc}})

\* angleOfTwist without the else branch that pushes the zeros
angleOfTwist_noElse(b) ==
    Let(torqueLoads(b), LAMBDA tl :
        IF Len(tl) > 0
        THEN Let(Tx_react(b), LAMBDA react : TwistFrom(b, tl, react, 0, points, <<>>))
        ELSE <<>>)

\* the values of angleOfTwist at the stations
angleOfTwist(b) ==
    Let(torqueLoads(b), LAMBDA tl :
        IF Len(tl) > 0
        THEN Let(Tx_react(b), LAMBDA react : TwistFrom(b, tl, react, 0, points, <<>>))
        ELSE AsSeq([k \in 1..(points + 1) |-> Zero]))

(* ------------------------------ deflection ----------------------------- *)

\* acc = [0]; for (i = 0; i < points; i++)
\*     acc.push(acc[i] + ((v[i] + v[i+1]) / 2) * dx)
\* (the sequences are indexed from 1: v[i] is the code's v[i - 1])
RECURSIVE TrapezoidFrom(_, _, _, _, _)
TrapezoidFromV(v, d, lo, hi, acc) ==
    IF lo > hi THEN acc
    ELSE IF lo = hi
    THEN Append(acc, Add(acc[lo], Mul(Div(Add(v[lo], v[lo + 1]), R(2)), d)))
    ELSE TrapezoidFrom(v, d, (lo + hi) \div 2 + 1, hi,
                       TrapezoidFrom(v, d, lo, (lo + hi) \div 2, acc))

TrapezoidFrom(v, d, lo, hi, acc) ==
    Only({TrapezoidFromV(v, d, i, j, s) : i \in {lo}, j \in {hi}, s \in {acc}})

slopeEI(b, M) ==
    Let2(M, dx(b), LAMBDA v, d : TrapezoidFrom(v, d, 1, points, <<Zero>>))

D_partial(b, sEI) ==
    Let2(sEI, dx(b), LAMBDA v, d : TrapezoidFrom(v, d, 1, points, <<Zero>>))

\* Math.round: floor(a + 1/2)
Round(a) == Let(a, LAMBDA v : IF v[2] = 0 THEN v ELSE R((2 * v[1] + v[2]) \div (2 * v[2])))

\* arr[idx] of a number array, used in arithmetic: an index that is no index
\* of the array reads undefined, which every arithmetic operation turns to NaN.
ArrAt(arr, idx) ==
    Let(idx, LAMBDA i :
        IF i[2] = 1 /\ i[1] >= 0 /\ i[1] < Len(arr) THEN arr[i[1] + 1] ELSE NaN)

\* Math.round((position / beam.length) * points)
StationIndex(b, position) == Round(Mul(Div(position, b.length), R(points)))

\* The integration constants <<C1, C2>> of the fixed branch
FixedConstants(b, fixedSupport, sEI, D) ==
    Let(StationIndex(b, fixedSupport.position), LAMBDA fixedIndex :
    Let(Neg(ArrAt(sEI, fixedIndex)), LAMBDA C1 :
        <<C1, Sub(Neg(ArrAt(D, fixedIndex)), Mul(C1, fixedSupport.position))>>))

\* The integration constants <<C1, C2>> of the two-support branch
SimpleConstants(b, sortedSupports, D) ==
    Let2(StationIndex(b, sortedSupports[1].position),
         StationIndex(b, sortedSupports[2].position), LAMBDA idxA, idxB :
    Let2(sortedSupports[1].position, sortedSupports[2].position, LAMBDA posA, posB :
    Let(Neg(Div(Sub(ArrAt(D, idxB), ArrAt(D, idxA)), Sub(posB, posA))), LAMBDA C1 :
        <<C1, Sub(Neg(ArrAt(D, idxA)), Mul(C1, posA))>>)))

\* The three loops that push slope and deflection, C being <<C1, C2>>
SlopeDeflectionBy(b, sEI, D, C, EI) ==
    [slope |-> AsSeq([k \in 1..(points + 1) |-> Div(Add(sEI[k], C[1]), EI)]),
     deflection |-> AsSeq([k \in 1..(points + 1) |->
                      Div(Add(Add(D[k], Mul(C[1], StationX(b, k - 1))), C[2]), EI)])]

\* the double integration with no branch on the supports, both constants 0
SlopeDeflection_integrated(b, M) ==
    Let(slopeEI(b, M), LAMBDA sEI :
        SlopeDeflectionBy(b, sEI, D_partial(b, sEI), <<Zero, Zero>>, Mul(b.E, b.I)))

\* The values of slope and deflection at the stations:
\* [slope |-> ..., deflection |-> ...].
SlopeDeflection(b, M) ==
    Let3(FindFixed(b.supports), SortByPosition(b.supports), Mul(b.E, b.I),
         LAMBDA fixedAt, sortedSupports, EI :
        IF fixedAt # 0 \/ Len(sortedSupports) >= 2
        THEN Let(slopeEI(b, M), LAMBDA sEI :
             Let(D_partial(b, sEI), LAMBDA D :
             Let(IF fixedAt # 0
                 THEN FixedConstants(b, b.supports[fixedAt], sEI, D)
                 ELSE SimpleConstants(b, sortedSupports, D), LAMBDA C :
                 SlopeDeflectionBy(b, sEI, D, C, EI))))
        ELSE [slope |-> AsSeq([k \in 1..(points + 1) |-> Zero]),
              deflection |-> AsSeq([k \in 1..(points + 1) |-> Zero])])

(* ---------------------------- chart inference -------------------------- *)

\* the test with > and < for >= and <=: a sample at zero ends no crossing
Crosses_strict(prev, value) ==
    \/ LtV(prev, Zero) /\ LtV(Zero, value)
    \/ LtV(Zero, prev) /\ LtV(value, Zero)

\* (prev < 0 && value >= 0) || (prev > 0 && value <= 0)
Crosses(prev, value) ==
    \/ LtV(prev, Zero) /\ LeV(Zero, value)
    \/ LtV(Zero, prev) /\ LeV(value, Zero)

\* data[i - 1].x + frac * (x - data[i - 1].x), p and q being data[i - 1]
\* and data[i]
CrossingAt(p, q) ==
    Add(p.x, Mul(Div(AbsR(p.value), Add(AbsR(p.value), AbsR(q.value))),
                 Sub(q.x, p.x)))

\* the pass with >= and <= for > and <: a later equal value overwrites
InferenceStep_lastWins(data, i, acc) ==
    [maxValue |-> IF LeV(acc.maxValue, data[i].value)
                  THEN data[i].value ELSE acc.maxValue,
     maxPosition |-> IF LeV(acc.maxValue, data[i].value)
                     THEN data[i].x ELSE acc.maxPosition,
     minValue |-> IF LeV(data[i].value, acc.minValue)
                  THEN data[i].value ELSE acc.minValue,
     minPosition |-> IF LeV(data[i].value, acc.minValue)
                     THEN data[i].x ELSE acc.minPosition,
     zeroCrossings |-> IF i > 1 /\ Crosses(data[i - 1].value, data[i].value)
                       THEN Append(acc.zeroCrossings, CrossingAt(data[i - 1], data[i]))
                       ELSE acc.zeroCrossings]

\* One pass of the loop of computeChartInference, data[i] being the sample.
InferenceStep(data, i, acc) ==
    [maxValue |-> IF LtV(acc.maxValue, data[i].value)
                  THEN data[i].value ELSE acc.maxValue,
     maxPosition |-> IF LtV(acc.maxValue, data[i].value)
                     THEN data[i].x ELSE acc.maxPosition,
     minValue |-> IF LtV(data[i].value, acc.minValue)
                  THEN data[i].value ELSE acc.minValue,
     minPosition |-> IF LtV(data[i].value, acc.minValue)
                     THEN data[i].x ELSE acc.minPosition,
     zeroCrossings |-> IF i > 1 /\ Crosses(data[i - 1].value, data[i].value)
                       THEN Append(acc.zeroCrossings, CrossingAt(data[i - 1], data[i]))
                       ELSE acc.zeroCrossings]

\* for (let i = lo; i <= hi; i++) over the samples (indexed from 1)
RECURSIVE InferenceFrom(_, _, _, _)
InferenceFromV(data, lo, hi, acc) ==
    IF lo > hi THEN acc
    ELSE IF lo = hi THEN InferenceStep(data, lo, acc)
    ELSE InferenceFrom(data, (lo + hi) \div 2 + 1, hi,
                       InferenceFrom(data, lo, (lo + hi) \div 2, acc))

InferenceFrom(data, lo, hi, acc) ==
    Only({InferenceFromV(data, i, j, s) : i \in {lo}, j \in {hi}, s \in {acc}})

computeChartInference(data) ==
    Let(data, LAMBDA d :
        InferenceFrom(d, 1, Len(d),
            [maxValue |-> NegInf, maxPosition |-> Zero,
             minValue |-> PosInf, minPosition |-> Zero, zeroCrossings |-> <<>>]))

(* ------------------------------- solveBeam ----------------------------- *)

\* solveBeam up to the end of its station loop: the locals that the rest of
\* the function reads and returns, and never writes again.
InternalForces(b) ==
    Let(solveReactions(b), LAMBDA reactionResult :
    Let(allLoads(b, reactionResult.reactions), LAMBDA loads :
    Let(ShearMoment(b, loads), LAMBDA VM :
    Let2(AsSeq([k \in 1..Len(VM) |-> VM[k][1]]),
         AsSeq([k \in 1..Len(VM) |-> VM[k][2]]), LAMBDA V, M :
        [reactions |-> reactionResult.reactions,
         allLoads |-> loads,
         shearForce |-> Series(b, V),
         bendingMoment |-> Series(b, M),
         maxSF |-> MaxAbs(V),
         maxBM |-> MaxAbs(M),
         steps |-> <<"0. Problem Setup", "1. Applied Loads">>
                   \o reactionResult.steps]))))

\* the values of a series
Values(series) ==
    Let(series, LAMBDA s : AsSeq([k \in 1..Len(s) |-> s[k].value]))

\* displayForce, displayMoment, displayDeflection: the text of a value in the
\* units of the beam, as the value, the factor it is multiplied by and the
\* name of the unit (the rounding of toFixed is left out).
displayForce(val, u) ==
    IF u = "kNm" THEN [value |-> val, factor |-> Q(1, 1000), unit |-> "kN"]
    ELSE IF u = "Imperial"
    THEN [value |-> val, factor |-> Q(2248, 10000), unit |-> "lbf"]
    ELSE [value |-> val, factor |-> R(1), unit |-> "N"]

displayMoment(val, u) ==
    IF u = "kNm" THEN [value |-> val, factor |-> Q(1, 1000), unit |-> "kN.m"]
    ELSE IF u = "Imperial"
    THEN [value |-> val, factor |-> Q(7376, 10000), unit |-> "lbf.ft"]
    ELSE [value |-> val, factor |-> R(1), unit |-> "N.m"]

displayDeflection(val, u) ==
    IF u = "Imperial"
    THEN [value |-> val, factor |-> Q(393701, 10000), unit |-> "in"]
    ELSE [value |-> val, factor |-> R(1000), unit |-> "mm"]

\* The ChartInference returned: the fields of the scan and the summary, of
\* which the model keeps the two formatted values, formatFn(maxVal) and
\* formatFn(minVal).
WithSummary(inference, shownMax, shownMin) ==
    [maxValue |-> inference.maxValue, maxPosition |-> inference.maxPosition,
     minValue |-> inference.minValue, minPosition |-> inference.minPosition,
     zeroCrossings |-> inference.zeroCrossings,
     summary |-> [maximum |-> shownMax, minimum |-> shownMin]]

\* computeChartInference(shearForce, 'Shear Force', v => displayForce(v,
\* beam.units)), and the like for the bending moment and the deflection
sfInference(b, data) ==
    Let(computeChartInference(data), LAMBDA inf :
        WithSummary(inf, displayForce(inf.maxValue, b.units),
                    displayForce(inf.minValue, b.units)))

bmInference(b, data) ==
    Let(computeChartInference(data), LAMBDA inf :
        WithSummary(inf, displayMoment(inf.maxValue, b.units),
                    displayMoment(inf.minValue, b.units)))

deflInference(b, data) ==
    Let(computeChartInference(data), LAMBDA inf :
        WithSummary(inf, displayDeflection(inf.maxValue, b.units),
                    displayDeflection(inf.minValue, b.units)))

\* The rest of solveBeam: stress, torsion, deflection, inferences, and the
\* returned object.
Finish(b, f) ==
    Let2(angleOfTwist(b), SlopeDeflection(b, Values(f.bendingMoment)),
         LAMBDA twist, sd :
    Let2(Series(b, sd.deflection), Len(torqueLoads(b)) > 0,
         LAMBDA deflection, hasTorsion :
        [reactions |-> f.reactions,
         shearForce |-> f.shearForce,
         bendingMoment |-> f.bendingMoment,
         slope |-> Series(b, sd.slope),
         deflection |-> deflection,
         angleOfTwist |-> Series(b, twist),
         maxShearForce |-> f.maxSF,
         maxBendingMoment |-> f.maxBM,
         maxDeflection |-> MaxAbs(sd.deflection),
         maxStress |-> Div(Mul(f.maxBM, Div(b.depth, R(2))), b.I),
         maxAngleOfTwist |-> MaxAbs(twist),
         hasTorsion |-> hasTorsion,
         steps |-> f.steps
                   \o <<"3. Shear Force Diagram (SFD)",
                        "4. Bending Moment Diagram (BMD)",
                        "5. Bending Stress">>
                   \o (IF hasTorsion THEN <<"6. Torsion & Angle of Twist">> ELSE <<>>)
                   \o <<"7. Slope & Deflection", "8. Maximum Deflection">>,
         sfInference |-> sfInference(b, f.shearForce),
         bmInference |-> bmInference(b, f.bendingMoment),
         deflectionInference |-> deflInference(b, deflection)]))

solveBeam(b) == Let(InternalForces(b), LAMBDA f : Finish(b, f))
(* -------------------------------- inputs ------------------------------- *)

\* The magnitudes of the loads are the integers 1..MaxMag and -1 (an upward
\* load); the intensities at the ends of a UVL are 0..MaxMag and -1.
MaxMag == 2

Mags == (1..MaxMag) \cup {-1}
Intensities == (0..MaxMag) \cup {-1}

Support(id, type, position) == [id |-> id, type |-> type, position |-> position]

\* A BeamConfig in SI units.  The field gravity only reaches the texts of
\* the steps, which the model leaves out; the field units reaches the
\* summaries of the inferences as well.
Beam(len, supports, loads) ==
    [length |-> R(len), E |-> R(2), G |-> R(1), I |-> R(3), J |-> R(2),
     depth |-> R(1), supports |-> supports, loads |-> loads, units |-> "SI"]

\* the position k/4 of the length
At(len, k) == Q(len * k, 4)

PointLoads(len, id) ==
    {Load(id, "point", At(len, k), R(m), UNDEF, UNDEF) : k \in {1, 2, 4}, m \in Mags}

\* moments, their magnitudes in units of the length
MomentLoads(len, id) ==
    {Load(id, "moment", At(len, 2), R(len * m), UNDEF, UNDEF) : m \in Mags}

TorqueLoads(len, id) ==
    {Load(id, "torque", At(len, k), R(1), UNDEF, UNDEF) : k \in {2, 4}}

\* UDLs over the whole length and over its middle half, and one whose end
\* position is absent
UdlLoads(len, id) ==
    {Load(id, "udl", At(len, sp[1]), R(m), UNDEF, At(len, sp[2])) :
        sp \in {<<0, 4>>, <<1, 3>>}, m \in Mags}
    \cup {Load(id, "udl", At(len, 2), R(1), UNDEF, UNDEF)}

\* UVLs over the first half of the length, some over the second half, one
\* without end magnitude and one without end position
UvlLoads(len, id) ==
    {Load(id, "uvl", At(len, 0), R(w[1]), R(w[2]), At(len, 2)) :
        w \in {v \in Intensities \X Intensities : v[1] + v[2] >= -1}}
    \cup {Load(id, "uvl", At(len, 2), R(0), R(0), At(len, 4)),
          Load(id, "uvl", At(len, 2), R(0), R(MaxMag), At(len, 4)),
          Load(id, "uvl", At(len, 2), R(MaxMag), R(0), At(len, 4)),
          Load(id, "uvl", At(len, 0), R(-1), R(-MaxMag), At(len, 2)),
          Load(id, "uvl", At(len, 0), R(1), UNDEF, At(len, 2)),
          Load(id, "uvl", At(len, 2), R(1), R(MaxMag), UNDEF)}

OneLoad(len, id) ==
    PointLoads(len, id) \cup MomentLoads(len, id) \cup TorqueLoads(len, id)
    \cup UdlLoads(len, id) \cup UvlLoads(len, id)

\* The lists of loads: none, one load, and a point load followed by a load
\* of another kind.
LoadLists(len) ==
    {<<>>}
    \cup {<<l>> : l \in OneLoad(len, "l1")}
    \cup {<<Load("l1", "point", At(len, 2), R(1), UNDEF, UNDEF), l>> :
             l \in {Load("l2", "udl", At(len, 0), R(1), UNDEF, At(len, 4)),
                    Load("l2", "uvl", At(len, 2), R(0), R(MaxMag), At(len, 4)),
                    Load("l2", "moment", At(len, 1), R(len), UNDEF, UNDEF),
                    Load("l2", "point", At(len, 1), R(-1), UNDEF, UNDEF),
                    Load("l2", "torque", At(len, 4), R(1), UNDEF, UNDEF)}}

\* the lists of one load that is a point load, a UDL or a moment
BenchmarkLists(len) ==
    {<<l>> : l \in PointLoads(len, "l1") \cup UdlLoads(len, "l1")
                     \cup MomentLoads(len, "l1")}

\* The lists of supports: cantilevers and simply supported beams (in either
\* order of the list, with and without overhang)
SolvableLists(len) ==
    {<<Support("s1", "fixed", At(len, 0))>>,
     <<Support("s1", "fixed", At(len, 4))>>,
     <<Support("s1", "pin", At(len, 0)), Support("s2", "roller", At(len, 4))>>,
     <<Support("s1", "roller", At(len, 4)), Support("s2", "pin", At(len, 0))>>,
     <<Support("s1", "pin", At(len, 1)), Support("s2", "roller", At(len, 4))>>}

\* and the other lists of supports
OtherLists(len) ==
    {<<>>,
     <<Support("s1", "pin", At(len, 2))>>,
     <<Support("s1", "pin", At(len, 2)), Support("s2", "roller", At(len, 2))>>,
     <<Support("s1", "pin", At(len, 0)), Support("s2", "roller", At(len, 2)),
       Support("s3", "roller", At(len, 4))>>,
     <<Support("s1", "fixed", At(len, 0)), Support("s2", "roller", At(len, 4))>>,
     <<Support("s1", "roller", At(len, 0)), Support("s2", "fixed", At(len, 4))>>,
     <<Support("s1", "fixed", At(len, 0)), Support("s2", "fixed", At(len, 4))>>}

SupportLists(len) == SolvableLists(len) \cup OtherLists(len)

\* The beams whose reactions, shear force and bending moment are computed:
\* of one length with every list of supports and of loads, of another with
\* the solvable lists of supports and one load.
ForcesBeams ==
    {Beam(500, sl, ll) : sl \in SupportLists(500), ll \in LoadLists(500)}
    \cup {Beam(250, sl, ll) : sl \in SolvableLists(250), ll \in BenchmarkLists(250)}

\* Beams whose supports lie between two stations (the stations of a beam 500
\* long are the integers): a cantilever fixed a quarter short of its right
\* end with a load at its left end, and a beam on two supports a quarter
\* past the stations 0 and 2 with a load between them.
OffStationBeams ==
    {Beam(500, <<Support("s1", "fixed", Q(1999, 4))>>,
          <<Load("l1", "point", R(0), R(1), UNDEF, UNDEF)>>),
     Beam(500, <<Support("s1", "pin", Q(1, 4)), Support("s2", "roller", Q(9, 4))>>,
          <<Load("l1", "point", R(1), R(1), UNDEF, UNDEF)>>)}

\* a load that acts at a point, or acts nowhere
Concentrated(l) ==
    \/ l.type \in {"point", "moment", "torque"}
    \/ l.type = "uvl" /\ l.magnitude = Zero /\ l.endMagnitude = Zero

\* The beams solveBeam is run on to its return: those whose loads are
\* concentrated or zero.  (The integers of TLC are 32 bits wide; the double
\* integration of a distributed load over 500 stations needs more to be
\* exact.)
SolverBeams ==
    {b \in ForcesBeams : \A k \in 1..Len(b.loads) : Concentrated(b.loads[k])}
    \cup OffStationBeams

(* ---------------------------- the state machine ------------------------ *)

\* the states of App and of BeamDesigner as their useState calls make them
Constructed ==
    /\ result = Null
    /\ solverError = Null
    /\ activeTab = "editor"
    /\ drag = Null
    /\ selected = Null
    /\ dblEdit = Null
    /\ edits = 0

\* what solveBeam has no access to
app == <<solverError, activeTab, drag, selected, dblEdit, edits>>

\* solveBeam is called on a beam
Init ==
    /\ beam \in SolverBeams
    /\ forces = Null
    /\ pc = "start"
    /\ Constructed

InitForces ==
    /\ beam \in ForcesBeams
    /\ forces = Null
    /\ pc = "start"
    /\ Constructed

\* beam.loads once the reactions are pushed: allLoads is a new array
\* ([...beam.loads]) and the pushes go to it.
beam_loads_aliased(b, all) == all
beam_loads(b, all) == b.loads

\* beam.supports once the supports are sorted by position: sort is called on
\* a new array ([...beam.supports]).
beam_supports(b, sorted) == b.supports

\* solveBeam runs to the end of its station loop
Forces ==
    /\ pc = "start"
    /\ forces' = InternalForces(beam)
    /\ beam' = [beam EXCEPT
                   !.loads = beam_loads(beam, forces'.allLoads),
                   !.supports = beam_supports(beam, SortByPosition(beam.supports))]
    /\ pc' = "forces"
    /\ UNCHANGED <<result, app>>

\* solveBeam runs from there to its return
Return ==
    /\ pc = "forces"
    /\ result' = Finish(beam, forces)
    /\ beam' = [beam EXCEPT
                   !.supports = beam_supports(beam, SortByPosition(beam.supports))]
    /\ pc' = "done"
    /\ UNCHANGED <<forces, app>>

Next == Forces \/ Return

\* solveBeam from call to return
Spec == Init /\ [][Next]_vars

\* solveBeam from call to the end of its station loop, on more beams
ForcesSpec == InitForces /\ [][Forces]_vars

(* -------------------------------- the editor --------------------------- *)

\* UNIT_SYSTEMS: a UnitConfig is modelled by the name of its system.
UNIT_SYSTEMS == {"SI", "kNm", "Imperial"}

\* The beam App starts with.  E and G are written in GPa (200e9 and 77e9 are
\* larger than the integers of TLC); the editor stores them and reads them
\* nowhere.
DEFAULT_BEAM ==
    [length |-> R(10), E |-> R(200), G |-> R(77), I |-> Q(1, 10000),
     J |-> Q(1, 10000), depth |-> Q(1, 2), gravity |-> Q(981, 100),
     supports |-> <<Support("s1", "pin", R(0)), Support("s2", "roller", R(10))>>,
     hinges |-> <<>>,
     loads |-> <<Load("l1", "point", R(5), R(10000), UNDEF, UNDEF)>>,
     loadCombinations |-> <<>>,
     units |-> "SI"]

PAD_L == 60
PAD_R == 60
SNAP == Q(1, 20)

\* the width of the canvas, which the model keeps at its first value
svgW == 800

\* Math.max
MaxR(a, b) ==
    Let2(a, b, LAMBDA u, v :
        IF IsNaN(u) \/ IsNaN(v) THEN NaN ELSE IF LeV(u, v) THEN v ELSE u)

\* the position of the pixel x of a canvas W wide, snapped and clamped
xToPos(x, len, W) ==
    MaxR(Zero,
         MinR(len, Mul(Round(Div(Mul(Q(x - PAD_L, W - PAD_L - PAD_R), len), SNAP)),
                       SNAP)))

\* array.map(f), array.filter(e => e.id !== id), array.some(e => e.id === id)
Map(array, f(_)) == AsSeq([k \in 1..Len(array) |-> f(array[k])])
Without_id(array, id) == SelectSeq(array, LAMBDA e : e.id # id)
Some_id(array, id) == \E k \in 1..Len(array) : array[k].id = id

\* array.map(e => e.id === id ? f(e) : e)
MapAt(array, id, f(_)) == Map(array, LAMBDA e : IF e.id = id THEN f(e) ELSE e)

\* The id `s${Date.now()}` or `l${Date.now()}` of a new element: one that no
\* element has and no state of the editor remembers.
Ids(prefix) == <<prefix \o "1", prefix \o "2", prefix \o "3", prefix \o "4">>

Known(id) ==
    \/ Some_id(beam.supports, id) \/ Some_id(beam.loads, id)
    \/ [id |-> id] = selected
    \/ drag # Null /\ drag.id = id
    \/ dblEdit # Null /\ dblEdit.id = id

NewId(prefix) ==
    Ids(prefix)[CHOOSE k \in 1..Len(Ids(prefix)) :
                    /\ ~Known(Ids(prefix)[k])
                    /\ \A j \in 1..(k - 1) : Known(Ids(prefix)[j])]

\* The runs of the editor set the beam MaxEdits times at most, and the beam
\* holds MaxElements supports and MaxElements loads at most.
MaxEdits == 2
MaxElements == 3

\* setBeam with the solver run on every change of the beam
setBeam_reactive(b) ==
    /\ beam' = b
    /\ result' = solveBeam(b)
    /\ UNCHANGED <<forces, pc, solverError, activeTab>>

\* setBeam of App: the beam becomes b, and nothing else of App changes
setBeam(b) ==
    /\ beam' = b
    /\ UNCHANGED <<forces, result, pc, solverError, activeTab>>

\* a handler of BeamDesigner sets the beam
Edit(b) ==
    /\ activeTab = "editor"
    /\ edits < MaxEdits
    /\ edits' = edits + 1
    /\ setBeam(b)

\* a handler of BeamDesigner that sets no beam
NoEdit ==
    /\ activeTab = "editor"
    /\ UNCHANGED <<beam, forces, result, pc, solverError, activeTab, edits>>

\* onMouseDown of the handle of a support, of a load, of an end of a span
onMouseDown(kind, id) ==
    /\ NoEdit
    /\ \/ kind = "support" /\ Some_id(beam.supports, id)
       \/ kind = "load-move" /\ Some_id(beam.loads, id)
       \/ /\ kind \in {"load-resize-start", "load-resize-end"}
          /\ \E k \in 1..Len(beam.loads) :
                beam.loads[k].id = id /\ beam.loads[k].type \in {"udl", "uvl"}
    /\ selected' = [id |-> id]
    /\ drag' = [kind |-> kind, id |-> id]
    /\ UNCHANGED dblEdit

\* the load l dragged to pos
load_move(l, pos) ==
    [l EXCEPT !.position = pos,
              !.endPosition =
                  IF l.endPosition # UNDEF
                  THEN Add(pos, Sub(Coalesce(l.endPosition, l.position), l.position))
                  ELSE UNDEF]

\* the start of the span of l dragged to pos
load_resize_start(l, pos) ==
    [l EXCEPT !.position =
        MinR(pos, Sub(Coalesce(l.endPosition, Add(l.position, R(2))), Q(1, 10)))]

\* the end of the span of l dragged to pos
load_resize_end(l, pos) ==
    [l EXCEPT !.endPosition = MaxR(pos, Add(l.position, Q(1, 10)))]

\* onMouseMove with the mouse at the pixel x of the canvas
onMouseMove(x) ==
    /\ drag # Null
    /\ LET pos == xToPos(x, beam.length, svgW) IN
       Edit(IF drag.kind = "support"
            THEN [beam EXCEPT !.supports =
                     MapAt(beam.supports, drag.id, LAMBDA s : [s EXCEPT !.position = pos])]
            ELSE IF drag.kind = "load-move"
            THEN [beam EXCEPT !.loads =
                     MapAt(beam.loads, drag.id, LAMBDA l : load_move(l, pos))]
            ELSE IF drag.kind = "load-resize-start"
            THEN [beam EXCEPT !.loads =
                     MapAt(beam.loads, drag.id, LAMBDA l : load_resize_start(l, pos))]
            ELSE IF drag.kind = "load-resize-end"
            THEN [beam EXCEPT !.loads =
                     MapAt(beam.loads, drag.id, LAMBDA l : load_resize_end(l, pos))]
            ELSE beam)
    /\ UNCHANGED <<drag, selected, dblEdit>>

\* mouseup on the window
onMouseUp ==
    /\ NoEdit
    /\ drag' = Null
    /\ UNCHANGED <<selected, dblEdit>>

\* onClick of a support or load, and of the canvas
onClick(id) ==
    /\ NoEdit
    /\ Some_id(beam.supports, id) \/ Some_id(beam.loads, id)
    /\ selected' = [id |-> id]
    /\ dblEdit' = Null
    /\ UNCHANGED drag

onClickCanvas ==
    /\ NoEdit
    /\ selected' = Null
    /\ dblEdit' = Null
    /\ UNCHANGED drag

\* onDoubleClick of the magnitude of a load and of the position of a support
onDoubleClick(id, field) ==
    /\ NoEdit
    /\ \/ field = "magnitude" /\ Some_id(beam.loads, id)
       \/ field = "position" /\ Some_id(beam.supports, id)
    /\ selected' = [id |-> id]
    /\ dblEdit' = [id |-> id, field |-> field]
    /\ UNCHANGED drag

\* onCommit of the value edited in place
onCommit(v) ==
    /\ dblEdit # Null
    /\ \/ /\ dblEdit.field = "magnitude"
          /\ Some_id(beam.loads, dblEdit.id)
          /\ Edit([beam EXCEPT !.loads =
                      MapAt(beam.loads, dblEdit.id, LAMBDA l : [l EXCEPT !.magnitude = v])])
       \/ /\ dblEdit.field = "position"
          /\ Some_id(beam.supports, dblEdit.id)
          /\ Edit([beam EXCEPT !.supports =
                      MapAt(beam.supports, dblEdit.id,
                            LAMBDA s : [s EXCEPT !.position = MaxR(Zero, MinR(beam.length, v))])])
    /\ dblEdit' = Null
    /\ UNCHANGED <<drag, selected>>

\* the beam without the selected support, or else without the selected load
deleteSelected ==
    IF Some_id(beam.supports, selected.id)
    THEN [beam EXCEPT !.supports = Without_id(beam.supports, selected.id)]
    ELSE [beam EXCEPT !.loads = Without_id(beam.loads, selected.id)]

\* the Delete and Backspace keys, and the Delete button of the toolbar
onKeyDown ==
    /\ selected # Null
    /\ dblEdit = Null
    /\ Edit(deleteSelected)
    /\ selected' = Null
    /\ UNCHANGED <<drag, dblEdit>>

onClickDelete ==
    /\ selected # Null
    /\ Edit(deleteSelected)
    /\ selected' = Null
    /\ UNCHANGED <<drag, dblEdit>>

addSupport(type) ==
    /\ Len(beam.supports) < MaxElements
    /\ Edit([beam EXCEPT !.supports =
                Append(beam.supports, Support(NewId("s"), type, Div(beam.length, R(2))))])
    /\ UNCHANGED <<drag, selected, dblEdit>>

addLoad(type) ==
    /\ Len(beam.loads) < MaxElements
    /\ Edit([beam EXCEPT !.loads =
                Append(beam.loads,
                       Load(NewId("l"), type, Div(beam.length, R(3)), R(5000),
                            IF type = "uvl" THEN Zero ELSE UNDEF,
                            IF type \in {"udl", "uvl"}
                            THEN Div(Mul(beam.length, R(2)), R(3)) ELSE UNDEF))])
    /\ UNCHANGED <<drag, selected, dblEdit>>

\* the input of the beam length
setLength(v) ==
    /\ Edit([beam EXCEPT !.length = MaxR(Q(1, 2), v)])
    /\ UNCHANGED <<drag, selected, dblEdit>>

\* The inputs of the properties panel (of the selected element) and of the
\* list of supports and loads below it, which the More button opens: type,
\* position and deletion of a support,
setSupportType(id, type) ==
    /\ Some_id(beam.supports, id)
    /\ Edit([beam EXCEPT !.supports =
                MapAt(beam.supports, id, LAMBDA s : [s EXCEPT !.type = type])])
    /\ UNCHANGED <<drag, selected, dblEdit>>

setSupportPosition(id, v) ==
    /\ Some_id(beam.supports, id)
    /\ Edit([beam EXCEPT !.supports =
                MapAt(beam.supports, id, LAMBDA s : [s EXCEPT !.position = v])])
    /\ UNCHANGED <<drag, selected, dblEdit>>

removeSupport(id) ==
    /\ Some_id(beam.supports, id)
    /\ Edit([beam EXCEPT !.supports = Without_id(beam.supports, id)])
    /\ UNCHANGED <<drag, selected, dblEdit>>

\* type, position, magnitude and deletion of a load, the end position of a
\* UDL or UVL, the end magnitude of a UVL.
setLoadType(id, type) ==
    /\ Some_id(beam.loads, id)
    /\ Edit([beam EXCEPT !.loads =
                MapAt(beam.loads, id, LAMBDA l : [l EXCEPT !.type = type])])
    /\ UNCHANGED <<drag, selected, dblEdit>>

setLoadPosition(id, v) ==
    /\ Some_id(beam.loads, id)
    /\ Edit([beam EXCEPT !.loads =
                MapAt(beam.loads, id, LAMBDA l : [l EXCEPT !.position = v])])
    /\ UNCHANGED <<drag, selected, dblEdit>>

setLoadMagnitude(id, v) ==
    /\ Some_id(beam.loads, id)
    /\ Edit([beam EXCEPT !.loads =
                MapAt(beam.loads, id, LAMBDA l : [l EXCEPT !.magnitude = v])])
    /\ UNCHANGED <<drag, selected, dblEdit>>

setLoadEndPosition(id, v) ==
    /\ \E k \in 1..Len(beam.loads) :
          beam.loads[k].id = id /\ beam.loads[k].type \in {"udl", "uvl"}
    /\ Edit([beam EXCEPT !.loads =
                MapAt(beam.loads, id, LAMBDA l : [l EXCEPT !.endPosition = v])])
    /\ UNCHANGED <<drag, selected, dblEdit>>

setLoadEndMagnitude(id, v) ==
    /\ \E k \in 1..Len(beam.loads) :
          beam.loads[k].id = id /\ beam.loads[k].type = "uvl"
    /\ Edit([beam EXCEPT !.loads =
                MapAt(beam.loads, id, LAMBDA l : [l EXCEPT !.endMagnitude = v])])
    /\ UNCHANGED <<drag, selected, dblEdit>>

removeLoad(id) ==
    /\ Some_id(beam.loads, id)
    /\ Edit([beam EXCEPT !.loads = Without_id(beam.loads, id)])
    /\ UNCHANGED <<drag, selected, dblEdit>>

\* the inputs of E, I, G, J, depth and g, and the button that resets g
setProperty(key, v) ==
    /\ key \in {"E", "I", "G", "J", "depth", "gravity"}
    /\ Edit([beam EXCEPT ![key] = v])
    /\ UNCHANGED <<drag, selected, dblEdit>>

resetGravity ==
    /\ Edit([beam EXCEPT !.gravity = Q(981, 100)])
    /\ UNCHANGED <<drag, selected, dblEdit>>

\* The unit system select of App, which is there on both tabs.
setUnits(system) ==
    /\ system \in UNIT_SYSTEMS
    /\ edits < MaxEdits
    /\ edits' = edits + 1
    /\ setBeam([beam EXCEPT !.units = system])
    /\ UNCHANGED <<drag, selected, dblEdit>>

\* The Beam Editor tab: BeamDesigner is mounted when the tab was the other.
setActiveTab_editor ==
    /\ activeTab' = "editor"
    /\ UNCHANGED <<beam, forces, result, pc, solverError, drag, selected, dblEdit, edits>>

\* solveBeam raises an exception on b: it has no throw statement, and no
\* operation of it raises on a BeamConfig whose fields are numbers and
\* arrays (an index outside an array reads undefined, a division by zero
\* gives Infinity or NaN).
solveBeam_throws(b) == FALSE

\* handleTabChange: the Analysis Results tab calls it with 'analysis'.
\* BeamDesigner is unmounted by the switch and loses its states.
handleTabChange(tab) ==
    /\ activeTab' = tab
    /\ IF tab = "analysis"
       THEN IF solveBeam_throws(beam)
            THEN /\ solverError' = [message |-> "Unknown solver error"]
                 /\ result' = Null
            ELSE /\ solverError' = Null
                 /\ result' = solveBeam(beam)
       ELSE UNCHANGED <<solverError, result>>
    /\ drag' = Null
    /\ selected' = Null
    /\ dblEdit' = Null
    /\ UNCHANGED <<beam, forces, pc, edits>>

\* The numbers typed into the inputs, the pixels the mouse is moved to (the
\* left edge of the canvas, a quarter and the middle of the beam, the right
\* edge), the lengths typed.
Typed == {R(-1), R(4), R(12)}
Pixels == {0, 230, 400, 800}
Lengths == {R(0), R(5)}

SupportTypes == {"pin", "roller", "fixed"}
LoadTypes == {"point", "udl", "uvl", "moment", "torque"}
ElementIds == {"s1", "s2", "s3", "s4", "l1", "l2", "l3", "l4"}

\* App is constructed
InitEditor ==
    /\ beam = DEFAULT_BEAM
    /\ forces = Null
    /\ pc = "idle"
    /\ Constructed

\* the user acts on the editor
EditorNext ==
    \/ \E id \in ElementIds :
          \E kind \in {"support", "load-move", "load-resize-start", "load-resize-end"} :
             onMouseDown(kind, id)
    \/ \E x \in Pixels : onMouseMove(x)
    \/ onMouseUp
    \/ \E id \in ElementIds : onClick(id)
    \/ onClickCanvas
    \/ \E id \in ElementIds : \E field \in {"magnitude", "position"} :
          onDoubleClick(id, field)
    \/ \E v \in Typed : onCommit(v)
    \/ onKeyDown
    \/ onClickDelete
    \/ \E type \in SupportTypes : addSupport(type)
    \/ \E type \in LoadTypes : addLoad(type)
    \/ \E v \in Lengths : setLength(v)
    \/ \E id \in ElementIds : \E type \in SupportTypes : setSupportType(id, type)
    \/ \E id \in ElementIds : \E v \in Typed : setSupportPosition(id, v)
    \/ \E id \in ElementIds : removeSupport(id)
    \/ \E id \in ElementIds : \E type \in LoadTypes : setLoadType(id, type)
    \/ \E id \in ElementIds : \E v \in Typed : setLoadPosition(id, v)
    \/ \E id \in ElementIds : setLoadMagnitude(id, R(5000))
    \/ \E id \in ElementIds : \E v \in Typed : setLoadEndPosition(id, v)
    \/ \E id \in ElementIds : setLoadEndMagnitude(id, R(5000))
    \/ \E id \in ElementIds : removeLoad(id)
    \/ setProperty("depth", R(1))
    \/ resetGravity
    \/ \E system \in UNIT_SYSTEMS : setUnits(system)

\* the editor from the construction of App, the Beam Editor tab being open
EditorSpec == InitEditor /\ [][EditorNext]_vars

\* The user acts on the editor and opens the analysis: one operation of
\* each kind (a unit change, a load added, a load moved, a magnitude edited,
\* a load deleted), on beams solveBeam is computed on exactly.
AppNext ==
    \/ handleTabChange("analysis")
    \/ setActiveTab_editor
    \/ setUnits("kNm")
    \/ addLoad("torque")
    \/ onMouseDown("load-move", "l1")
    \/ onMouseMove(230)
    \/ onMouseUp
    \/ setLoadMagnitude("l1", R(5000))
    \/ removeLoad("l1")

\* App from its construction
AppSpec == InitEditor /\ [][AppNext]_vars

(* ------------------------------ properties ----------------------------- *)

\* the sum of a sequence of numbers
RECURSIVE SumFrom(_, _)
SumFrom(seq, k) == IF k > Len(seq) THEN Zero ELSE Add(seq[k], SumFrom(seq, k + 1))

Sum(seq) == SumFrom(seq, 1)

\* one fixed support and no other
Cantilever(b) == Len(b.supports) = 1 /\ b.supports[1].type = "fixed"

\* two supports, neither fixed
TwoSimple(b) ==
    Len(b.supports) = 2 /\ \A k \in 1..2 : b.supports[k].type # "fixed"

Solvable(b) ==
    \/ Cantilever(b)
    \/ TwoSimple(b) /\ b.supports[1].position # b.supports[2].position

\* every UDL and UVL has its end position, every UVL its end magnitude
ExplicitEnds(b) ==
    \A k \in 1..Len(b.loads) :
        /\ b.loads[k].type \in {"udl", "uvl"} => b.loads[k].endPosition # UNDEF
        /\ b.loads[k].type = "uvl" => b.loads[k].endMagnitude # UNDEF

\* The vertical resultant of a load: point, its magnitude; UDL, w * (end -
\* start); UVL, ((w1 + w2) / 2) * (end - start); moment and torque, none.
VerticalResultant(l) ==
    IF l.type = "point" THEN l.magnitude
    ELSE IF l.type = "udl"
    THEN Mul(l.magnitude, Sub(l.endPosition, l.position))
    ELSE IF l.type = "uvl"
    THEN Mul(Div(Add(l.magnitude, l.endMagnitude), R(2)), Sub(l.endPosition, l.position))
    ELSE Zero

SumOfResultants(b) ==
    Sum(AsSeq([k \in 1..Len(b.loads) |-> VerticalResultant(b.loads[k])]))

SumOfFy(reactions) == Sum(AsSeq([k \in 1..Len(reactions) |-> reactions[k].Fy]))

\* C1: vertical equilibrium.  For a solvable beam (one fixed support alone,
\* or two non-fixed supports at distinct positions) whose distributed loads
\* have their end position given, the Fy of the reactions add up to the sum
\* of the vertical resultants of the loads.
C1_VerticalEquilibrium ==
    (pc = "forces" /\ Solvable(beam) /\ ExplicitEnds(beam))
        => SumOfFy(forces.reactions) = SumOfResultants(beam)

\* C1 on a simply supported beam with overhang that carries two loads, a
\* point load and a UVL, with two nonzero reactions
C1_Witness ==
    /\ pc = "forces" /\ TwoSimple(beam) /\ ExplicitEnds(beam)
    /\ beam.supports[1].position # Zero
    /\ \E k \in 1..Len(beam.loads) : beam.loads[k].type = "uvl"
    /\ Len(forces.reactions) = 2
    /\ forces.reactions[1].Fy # Zero /\ forces.reactions[2].Fy # Zero
    /\ SumOfFy(forces.reactions) = SumOfResultants(beam)
    /\ SumOfResultants(beam) # Zero

(* C2: the cantilever benchmark *)

\* the title is one of the titles of the steps
HasStep(steps, title) == \E k \in 1..Len(steps) : steps[k] = title

\* |a - target| <= tolerance
Within(a, target, tolerance) == Le(AbsR(Sub(a, target)), tolerance)

\* a single fixed support at 0 and a single downward point load at the end
CantileverTipLoad(b) ==
    /\ Cantilever(b) /\ b.supports[1].position = Zero
    /\ Len(b.loads) = 1 /\ b.loads[1].type = "point"
    /\ b.loads[1].position = b.length /\ Gt(b.loads[1].magnitude, Zero)

\* P * L^3 / (3 * E * I)
TipDeflection(b) ==
    Div(Mul(b.loads[1].magnitude, Mul(b.length, Mul(b.length, b.length))),
        Mul(R(3), Mul(b.E, b.I)))

\* P * L^2 / (2 * E * I)
TipSlope(b) ==
    Div(Mul(b.loads[1].magnitude, Mul(b.length, b.length)),
        Mul(R(2), Mul(b.E, b.I)))

\* C2: cantilever benchmark.  For a beam with a single fixed support at 0
\* and a single downward point load P at x = L, the deflection sample at the
\* last station has magnitude P L^3 / (3 E I) and the slope sample there has
\* magnitude P L^2 / (2 E I), each within one hundredth of that value (the
\* trapezoidal rule over 500 intervals is exact for the slope of this beam
\* and errs by a part in 10^5 in its deflection).
C2_CantileverBenchmark ==
    (pc = "done" /\ CantileverTipLoad(beam))
        => /\ Within(AbsR(result.deflection[501].value), TipDeflection(beam),
                     Div(TipDeflection(beam), R(100)))
           /\ Within(AbsR(result.slope[501].value), TipSlope(beam),
                     Div(TipSlope(beam), R(100)))

(* C3: the simply supported benchmark, point load *)

\* two non-fixed supports, one at 0 and one at the end
SupportedAtEnds(b) ==
    /\ TwoSimple(b)
    /\ {b.supports[1].position, b.supports[2].position} = {Zero, b.length}

MidspanPointLoad(b) ==
    /\ SupportedAtEnds(b)
    /\ Len(b.loads) = 1 /\ b.loads[1].type = "point"
    /\ b.loads[1].position = Div(b.length, R(2))

\* C3: simply supported benchmark, point load.  For a beam with two
\* non-fixed supports at 0 and L and a single point load P at L/2, both
\* reactions are P/2, maxBendingMoment is |P| L / 4, and the bending-moment
\* sample at the station x = L/2 is larger in absolute value than every
\* other sample.
C3_SimplySupportedPoint ==
    (pc = "done" /\ MidspanPointLoad(beam))
        => /\ Len(result.reactions) = 2
           /\ \A k \in 1..2 :
                 result.reactions[k].Fy = Div(beam.loads[1].magnitude, R(2))
           /\ result.maxBendingMoment
                 = Div(Mul(AbsR(beam.loads[1].magnitude), beam.length), R(4))
           /\ result.bendingMoment[251].x = Div(beam.length, R(2))
           /\ AbsR(result.bendingMoment[251].value) = result.maxBendingMoment
           /\ \A k \in 1..Len(result.bendingMoment) :
                 k # 251 => Lt(AbsR(result.bendingMoment[k].value),
                               AbsR(result.bendingMoment[251].value))

\* C3 with the supports listed from the right to the left, on the shorter
\* beam and with a load of more than the unit
C3_Witness ==
    /\ pc = "done" /\ MidspanPointLoad(beam)
    /\ beam.supports[1].position = beam.length
    /\ beam.length = R(250)
    /\ beam.loads[1].magnitude = R(MaxMag)
    /\ result.reactions[1].Fy = Div(R(MaxMag), R(2))
    /\ result.maxBendingMoment = Div(R(MaxMag * 250), R(4))

(* C4: the simply supported benchmark, UDL *)

FullSpanUdl(b) ==
    /\ SupportedAtEnds(b)
    /\ Len(b.loads) = 1 /\ b.loads[1].type = "udl"
    /\ b.loads[1].position = Zero /\ b.loads[1].endPosition = b.length

\* |w| L / 2
UdlEndShear(b) == Div(Mul(AbsR(b.loads[1].magnitude), b.length), R(2))

\* |w| L^2 / 8
UdlMidMoment(b) ==
    Div(Mul(AbsR(b.loads[1].magnitude), Mul(b.length, b.length)), R(8))

\* maxBendingMoment is |w| L^2 / 8, the sample at midspan, and maxShearForce
\* is |w| L / 2, the sample at x = 0
UdlMaxima(b, f) ==
    /\ f.maxBM = UdlMidMoment(b)
    /\ f.bendingMoment[251].x = Div(b.length, R(2))
    /\ AbsR(f.bendingMoment[251].value) = UdlMidMoment(b)
    /\ f.maxSF = UdlEndShear(b)
    /\ f.shearForce[1].x = Zero
    /\ AbsR(f.shearForce[1].value) = UdlEndShear(b)
    /\ f.shearForce[501].x = b.length

Unable == "2b. Reactions - Unable to Solve"

\* C5: every configuration of supports other than one fixed support alone
\* and two supports neither of them fixed is reported unsolvable: the
\* reactions are empty and the steps hold the 'Unable to Solve' step.
C5_OthersUnsolvable ==
    (pc = "done" /\ ~Cantilever(beam) /\ ~TwoSimple(beam))
        => /\ result.reactions = <<>>
           /\ HasStep(result.steps, Unable)

\* no support, or one support that is not fixed
Unsupported(b) ==
    \/ Len(b.supports) = 0
    \/ Len(b.supports) = 1 /\ b.supports[1].type # "fixed"

\* a series of 501 samples, each a finite number
Populated(series) ==
    /\ Len(series) = 501
    /\ \A k \in 1..Len(series) : IsFinite(series[k].x) /\ IsFinite(series[k].value)

\* C6: for a beam with no support or with one non-fixed support solveBeam
\* returns a result of numbers: its reactions are empty, its steps hold the 'Unable to
\* Solve' step, its five series are populated, and shear and moment are
\* computed from the applied loads alone.
C6_UnsupportedDegrades ==
    (pc = "done" /\ Unsupported(beam))
        => /\ result.reactions = <<>>
           /\ HasStep(result.steps, Unable)
           /\ Populated(result.shearForce) /\ Populated(result.bendingMoment)
           /\ Populated(result.slope) /\ Populated(result.deflection)
           /\ Populated(result.angleOfTwist)
           /\ forces.allLoads = beam.loads

\* C6 on a beam on one pin under a point load and a torque: shear and
\* moment are not zero, the twist is not zero
C6_Witness ==
    /\ pc = "done" /\ Len(beam.supports) = 1 /\ Unsupported(beam)
    /\ Len(beam.loads) = 2 /\ beam.loads[2].type = "torque"
    /\ result.reactions = <<>>
    /\ HasStep(result.steps, Unable)
    /\ result.maxShearForce # Zero /\ result.maxBendingMoment # Zero
    /\ result.hasTorsion /\ result.maxAngleOfTwist # Zero
    /\ Populated(result.deflection)

(* C7: differential consistency *)

\* a point load or a moment of the effective load list acts in (lo, hi]
ActsWithin(loads, lo, hi) ==
    \E k \in 1..Len(loads) :
        /\ loads[k].type \in {"point", "moment"}
        /\ Gt(loads[k].position, lo) /\ Le(loads[k].position, hi)

\* | (M(x_{i+1}) - M(x_i)) / dx - (V(x_i) + V(x_{i+1})) / 2 |, i in 0..499
ConsistencyError(b, f, i) ==
    AbsR(Sub(Div(Sub(f.bendingMoment[i + 2].value, f.bendingMoment[i + 1].value),
                 dx(b)),
             Div(Add(f.shearForce[i + 1].value, f.shearForce[i + 2].value), R(2))))

\* the rate at which the intensity of a load changes along its span
IntensityRate(b, l) ==
    IF l.type = "uvl" /\ Gt(Sub(Coalesce(l.endPosition, b.length), l.position), Zero)
    THEN Div(AbsR(Sub(Coalesce(l.endMagnitude, Zero), l.magnitude)),
             Sub(Coalesce(l.endPosition, b.length), l.position))
    ELSE Zero

\* The tolerance of the discretisation: dx^2 times the rates of the loads.
\* (The mean of the shear at the ends of an interval differs from the
\* difference quotient of the moment by dx^2 / 12 times the rate.)
ConsistencyTolerance(b) ==
    Mul(Mul(dx(b), dx(b)),
        Sum(AsSeq([k \in 1..Len(b.loads) |-> IntensityRate(b, b.loads[k])])))

\* C7: differential consistency.  For every solvable beam and every pair of
\* consecutive stations x_i, x_{i+1} the difference quotient of the bending
\* moment is the mean of the shear at the two stations within the tolerance
\* of the discretisation: stated here for the intervals (x_i, x_{i+1}] in
\* which no point load, reaction or moment acts (at such a load the shear
\* jumps, and the two differ by half the jump whatever dx is).
C7_DifferentialConsistency ==
    (pc = "forces" /\ Solvable(beam))
        => \A i \in 0..499 :
              ~ActsWithin(forces.allLoads, forces.shearForce[i + 1].x,
                          forces.shearForce[i + 2].x)
                  => Le(ConsistencyError(beam, forces, i), ConsistencyTolerance(beam))

(* C8: the stations *)

\* 501 samples at x_i = i L / 500, i = 0..500
Stations(b, series) ==
    /\ Len(series) = 501
    /\ \A i \in 0..500 : series[i + 1].x = Div(Mul(R(i), b.length), R(500))
    /\ series[1].x = Zero /\ series[501].x = b.length

\* C8: each of the five series of the result has 501 samples, at
\* x_i = i L / 500 for i = 0..500, the first at 0 and the last at L, in every
\* branch.
C8_Stations ==
    pc = "done"
        => /\ Stations(beam, result.shearForce)
           /\ Stations(beam, result.bendingMoment)
           /\ Stations(beam, result.slope)
           /\ Stations(beam, result.deflection)
           /\ Stations(beam, result.angleOfTwist)

\* C8 with torsion on a beam without supports (the branch of deflection
\* that pushes zeros, the unsolvable branch of the reactions)
C8_Witness ==
    /\ pc = "done" /\ Len(beam.supports) = 0 /\ result.hasTorsion
    /\ HasStep(result.steps, Unable)
    /\ Stations(beam, result.angleOfTwist) /\ Stations(beam, result.deflection)
    /\ result.angleOfTwist[501].value # Zero

(* C9: the UVL of zero intensity *)

\* a UVL with w1 = w2 = 0 over a span of positive length
ZeroUvl(l) ==
    /\ l.type = "uvl" /\ l.magnitude = Zero /\ l.endMagnitude = Zero
    /\ l.endPosition # UNDEF /\ Gt(Sub(l.endPosition, l.position), Zero)

\* the loads without the load k
Without(loads, k) == SubSeq(loads, 1, k - 1) \o SubSeq(loads, k + 1, Len(loads))

\* The zero UVL l of the beam b adds nothing to the sums of getTotalLoads
\* about either end of the beam or a support, nothing to V and M at a
\* station, and its centroid is the midpoint of its span.
AddsNothing(b, f, l) ==
    /\ \A p \in {Zero, b.length} \cup {b.supports[s].position : s \in 1..Len(b.supports)} :
          LoadResultant(l, p) = <<Zero, Zero>>
    /\ \A i \in 1..Len(f.shearForce) :
          LoadVM(l, f.shearForce[i].x, b.length) = <<Zero, Zero>>
    /\ xc_local(Sub(l.endPosition, l.position), l.magnitude, l.endMagnitude)
          = Div(Sub(l.endPosition, l.position), R(2))
    /\ \A i \in 1..Len(f.shearForce) :
          IsFinite(x_c_from_a(f.shearForce[i].x, l.magnitude, l.endMagnitude))

\* C9: a UVL with w1 = w2 = 0 and a span of positive length adds nothing to
\* sumFy and sumM and nothing to V and M at any station, its centroid is the
\* midpoint of the span (no division by zero): the reactions, the shear
\* force and the bending moment are those of the beam without it.
C9_ZeroUvl ==
    pc = "forces"
        => \A k \in 1..Len(beam.loads) :
              ZeroUvl(beam.loads[k])
                  => /\ AddsNothing(beam, forces, beam.loads[k])
                     /\ forces.reactions
                           = solveReactions([beam EXCEPT !.loads = Without(@, k)]).reactions
                     /\ forces.shearForce
                           = InternalForces([beam EXCEPT !.loads = Without(@, k)]).shearForce
                     /\ forces.bendingMoment
                           = InternalForces([beam EXCEPT !.loads = Without(@, k)]).bendingMoment

\* C9 on a simply supported beam that carries the zero UVL alone: two
\* reactions of 0, no shear, no moment
C9_Witness ==
    /\ pc = "forces" /\ TwoSimple(beam) /\ Solvable(beam)
    /\ Len(beam.loads) = 1 /\ ZeroUvl(beam.loads[1])
    /\ Len(forces.reactions) = 2
    /\ \A k \in 1..2 : forces.reactions[k].Fy = Zero
    /\ forces.maxSF = Zero /\ forces.maxBM = Zero
    /\ AddsNothing(beam, forces, beam.loads[1])

\* C11: solveBeam leaves its input as it was.  No step of solveBeam changes
\* beam: beam.loads and beam.supports hold the same elements in the same
\* order after the step as before it, although the effective load list has
\* gained the reaction loads and the supports have been sorted.
C11_InputUnchanged == [][beam' = beam]_vars

\* solveBeam has returned, has pushed reaction loads onto its load list, and
\* the supports it was given were not in the order of their positions
C11_Witness ==
    /\ pc = "done"
    /\ Len(forces.allLoads) > Len(beam.loads)
    /\ forces.allLoads[Len(beam.loads) + 1].id[1] = "reac"
    /\ SortByPosition(beam.supports) # beam.supports

\* a position on the beam b
OnBeam(b, position) == Le(Zero, position) /\ Le(position, b.length)

\* a UDL or UVL
IsSpan(l) == l.type \in {"udl", "uvl"}

\* C12: after any sequence of editor operations from the default beam, every
\* support position, every load start position and every end position of a
\* UDL or UVL lies in [0, beam.length].  (A UDL or UVL with no end position
\* has none to lie anywhere.)
C12_PositionsOnBeam ==
    /\ \A k \in 1..Len(beam.supports) : OnBeam(beam, beam.supports[k].position)
    /\ \A k \in 1..Len(beam.loads) :
          /\ OnBeam(beam, beam.loads[k].position)
          /\ (IsSpan(beam.loads[k]) /\ beam.loads[k].endPosition # UNDEF)
                => OnBeam(beam, beam.loads[k].endPosition)

\* C13: after any sequence of editor operations from the default beam, the
\* end position of every UDL and UVL is greater than or equal to its start
\* position.  (A UDL or UVL with no end position has none to compare.)
C13_SpansNotInverted ==
    \A k \in 1..Len(beam.loads) :
        (IsSpan(beam.loads[k]) /\ beam.loads[k].endPosition # UNDEF)
            => Le(beam.loads[k].position, beam.loads[k].endPosition)

\* C14: The solver runs on demand only.  A step that opens the analysis tab
\* stores solveBeam of the beam as it is then and clears the error; a step in
\* which the editor sets the beam (an element added, moved, edited or
\* deleted, the units changed) leaves the stored result, the error and the
\* tab as they are; the stored result changes in no step but one that shows
\* the analysis tab and leaves the beam; and an error is never stored
\* together with a result.
C14_SolverOnDemand ==
    [][/\ (activeTab = "editor" /\ activeTab' = "analysis")
            => (result' = solveBeam(beam) /\ solverError' = Null)
       /\ edits' # edits
            => (result' = result /\ solverError' = solverError /\ activeTab' = activeTab)
       /\ result' # result => (activeTab' = "analysis" /\ beam' = beam)
       /\ solverError' # Null => result' = Null]_vars

\* The editor is open again after an analysis, the load of the default beam
\* has been deleted since, and the stored result is still that of the beam
\* with its load.
C14_Witness ==
    /\ activeTab = "editor"
    /\ edits > 0
    /\ beam.loads = <<>>
    /\ result # Null
    /\ result.maxBendingMoment = R(25000)

\* |a| <= 1e-12
ApproxZero(a) == ~GtTol(AbsR(a), 12)

\* The offset of the resultant of a UVL from the start of its span l long,
\* the intensities at its ends being w1 and w2: (l / 3) * (w1 + 2 * w2) /
\* (w1 + w2), and l / 2 when w1 + w2 is approximately zero.
UvlOffset(l, w1, w2) ==
    IF ApproxZero(Add(w1, w2)) THEN Div(l, R(2))
    ELSE Mul(Div(l, R(3)), Div(Add(w1, Mul(R(2), w2)), Add(w1, w2)))

\* where the resultant of a load acts
Centroid(l) ==
    IF l.type = "udl" THEN Add(l.position, Div(Sub(l.endPosition, l.position), R(2)))
    ELSE IF l.type = "uvl"
    THEN Add(l.position,
             UvlOffset(Sub(l.endPosition, l.position), l.magnitude, l.endMagnitude))
    ELSE l.position

\* The moment of a load about the position f: resultant * (centroid - f),
\* the magnitude of an applied moment, nothing of a torque.
MomentAbout(l, f) ==
    IF l.type = "moment" THEN l.magnitude
    ELSE IF l.type = "torque" THEN Zero
    ELSE Mul(VerticalResultant(l), Sub(Centroid(l), f))

SumOfMoments(b, f) ==
    Sum(AsSeq([k \in 1..Len(b.loads) |-> MomentAbout(b.loads[k], f)]))

\* C15: cantilever reactions.  For a beam whose only support is one fixed
\* support at f (and whose distributed loads have their ends given), the
\* reactions have exactly one entry, for that support; its Fy is the sum of
\* the vertical resultants of the loads, and its Mz the sum over the loads of
\* resultant * (centroid - f) plus the sum of the applied moments.
C15_CantileverReactions ==
    (pc = "forces" /\ Cantilever(beam) /\ ExplicitEnds(beam))
        => /\ Len(forces.reactions) = 1
           /\ forces.reactions[1].id = beam.supports[1].id
           /\ forces.reactions[1].Fy = SumOfResultants(beam)
           /\ forces.reactions[1].Mz = SumOfMoments(beam, beam.supports[1].position)

\* of two supports at distinct positions, the one at the lower position and
\* the one at the higher
LowerSupport(b) ==
    IF Lt(b.supports[1].position, b.supports[2].position)
    THEN b.supports[1] ELSE b.supports[2]

HigherSupport(b) ==
    IF Lt(b.supports[1].position, b.supports[2].position)
    THEN b.supports[2] ELSE b.supports[1]

\* the Fy that the reactions give the support id
FyOf(reactions, id) ==
    (CHOOSE r \in {reactions[k] : k \in 1..Len(reactions)} : r.id = id).Fy

HasReaction(reactions, id) == \E k \in 1..Len(reactions) : reactions[k].id = id

\* the beam with its two supports in the other order
Swapped(b) == [b EXCEPT !.supports = <<b.supports[2], b.supports[1]>>]

\* C16: simply supported reactions.  For a beam with exactly two non-fixed
\* supports at distinct positions (and whose distributed loads have their
\* ends given), A being the support at the lower position and B the other:
\* R_B = (sum of the moments of the loads about A) / (pos_B - pos_A),
\* R_A = (sum of the vertical resultants) - R_B, and each support id gets the
\* same reaction with the two supports in the other order in beam.supports.
C16_SimplySupportedReactions ==
    (pc = "forces" /\ Solvable(beam) /\ TwoSimple(beam) /\ ExplicitEnds(beam))
        => /\ Len(forces.reactions) = 2
           /\ HasReaction(forces.reactions, LowerSupport(beam).id)
           /\ HasReaction(forces.reactions, HigherSupport(beam).id)
           /\ FyOf(forces.reactions, HigherSupport(beam).id)
                = Div(SumOfMoments(beam, LowerSupport(beam).position),
                      Sub(HigherSupport(beam).position, LowerSupport(beam).position))
           /\ FyOf(forces.reactions, LowerSupport(beam).id)
                = Sub(SumOfResultants(beam), FyOf(forces.reactions, HigherSupport(beam).id))
           /\ \A k \in 1..2 :
                 FyOf(solveReactions(Swapped(beam)).reactions, beam.supports[k].id)
                    = FyOf(forces.reactions, beam.supports[k].id)

\* a UVL with its ends given, a span of positive length and end intensities
\* whose sum is not approximately zero
SlopedUvl(l) ==
    /\ l.type = "uvl" /\ l.endPosition # UNDEF /\ l.endMagnitude # UNDEF
    /\ Gt(l.endPosition, l.position)
    /\ ~ApproxZero(Add(l.magnitude, l.endMagnitude))

\* the moment about f of the resultant of the UVL l placed at its centroid
UvlMoment(l, f) == Mul(VerticalResultant(l), Sub(Centroid(l), f))

\* C17: UVL centroid.  For every UVL with a span of positive length and end
\* intensities w1, w2 whose sum is not approximately zero (upward loads,
\* w1 + w2 < 0, included), the reaction solver and the integrator place the
\* resultant at (l / 3) * (w1 + 2 * w2) / (w1 + w2) from the start of the
\* span: the load adds resultant * (centroid - f) to the sum of moments about
\* any f, and -resultant * (x - centroid) to the bending moment at every
\* station x at or past the end of its span.
C17_UvlCentroid ==
    pc = "forces"
        => \A k \in 1..Len(beam.loads) :
              SlopedUvl(beam.loads[k])
                  => /\ LoadResultant(beam.loads[k], Zero)[2] = UvlMoment(beam.loads[k], Zero)
                     /\ \A i \in 1..Len(forces.bendingMoment) :
                           Ge(forces.bendingMoment[i].x, beam.loads[k].endPosition)
                               => LoadVM(beam.loads[k], forces.bendingMoment[i].x, beam.length)[2]
                                    = Neg(Mul(VerticalResultant(beam.loads[k]),
                                              Sub(forces.bendingMoment[i].x,
                                                  Centroid(beam.loads[k]))))

(* C18 to C20: the boundary conditions of the deflection *)

HasFixed(b) == \E k \in 1..Len(b.supports) : b.supports[k].type = "fixed"

\* the first fixed support of the list
FirstFixed(b) ==
    b.supports[CHOOSE k \in 1..Len(b.supports) :
                  /\ b.supports[k].type = "fixed"
                  /\ \A j \in 1..(k - 1) : b.supports[j].type # "fixed"]

\* the indices (0..500) of the stations nearest the position: those no more
\* than half a step from it
NearestStations(b, position) ==
    {i \in 0..points :
        Le(AbsR(Sub(Div(Mul(R(i), b.length), R(points)), position)),
           Div(b.length, R(2 * points)))}

\* the sample of the series at a station nearest the position is zero
ZeroNear(b, series, position) ==
    \E i \in NearestStations(b, position) : series[i + 1].value = Zero

\* C18: fixed-support boundary condition.  For every beam that contains a
\* fixed support, the slope sample and the deflection sample at the station
\* nearest the position of the fixed support (the first of the list) are
\* both zero.
C18_FixedBoundary ==
    (pc = "done" /\ HasFixed(beam))
        => /\ ZeroNear(beam, result.slope, FirstFixed(beam).position)
           /\ ZeroNear(beam, result.deflection, FirstFixed(beam).position)

\* the supports in the order of their positions, the order of the list
\* breaking ties
ByPosition(b) == SortByPosition(b.supports)

NoFixed(b) == \A k \in 1..Len(b.supports) : b.supports[k].type # "fixed"

\* C19: simple-support boundary condition.  For every beam with no fixed
\* support and at least two supports, the deflection samples at the stations
\* nearest the two supports of lowest position are both zero.
C19_SimpleBoundary ==
    (pc = "done" /\ NoFixed(beam) /\ Len(beam.supports) >= 2)
        => /\ ZeroNear(beam, result.deflection, ByPosition(beam)[1].position)
           /\ ZeroNear(beam, result.deflection, ByPosition(beam)[2].position)

AllZero(series) == \A i \in 1..Len(series) : series[i].value = Zero

\* C20: degenerate deflection.  For every beam with no fixed support and
\* fewer than two supports, the slope and the deflection are zero at every
\* one of the 501 stations and maxDeflection is 0, whatever loads are
\* applied.
C20_DegenerateDeflection ==
    (pc = "done" /\ NoFixed(beam) /\ Len(beam.supports) < 2)
        => /\ Len(result.slope) = 501 /\ AllZero(result.slope)
           /\ Len(result.deflection) = 501 /\ AllZero(result.deflection)
           /\ result.maxDeflection = Zero

\* a beam on one pin with a load whose bending moment is not zero
C20_Witness ==
    /\ pc = "done" /\ Len(beam.supports) = 1 /\ NoFixed(beam)
    /\ Len(beam.loads) > 0 /\ Gt(result.maxBendingMoment, Zero)
    /\ AllZero(result.deflection) /\ AllZero(result.slope)

(* C21, C22: torsion *)

HasTorque(b) == \E k \in 1..Len(b.loads) : b.loads[k].type = "torque"

\* C21: the no-torsion case.  When beam.loads contains no torque load,
\* hasTorsion is false, maxAngleOfTwist is 0 and the angle of twist is 0 at
\* every one of the stations; when it contains a torque load, hasTorsion is
\* true.
C21_NoTorsion ==
    pc = "done"
        => /\ ~HasTorque(beam)
                => /\ result.hasTorsion = FALSE
                   /\ result.maxAngleOfTwist = Zero
                   /\ Len(result.angleOfTwist) = points + 1
                   /\ AllZero(result.angleOfTwist)
           /\ HasTorque(beam) => result.hasTorsion = TRUE

\* a beam solved whose loads are there and none of them a torque
C21_Witness ==
    /\ pc = "done" /\ Len(beam.loads) > 0 /\ ~HasTorque(beam)
    /\ \E k \in 1..Len(beam.loads) : beam.loads[k].type = "moment"
    /\ result.hasTorsion = FALSE /\ AllZero(result.angleOfTwist)

\* the sum of the magnitudes of the torque loads at or before x
TorquesUpTo(b, x) ==
    Sum(AsSeq([k \in 1..Len(b.loads) |->
                 IF b.loads[k].type = "torque" /\ Le(b.loads[k].position, x)
                 THEN b.loads[k].magnitude ELSE Zero]))

\* minus the sum of all the torque magnitudes if a fixed support stands at 0
\* exactly, and 0 otherwise
ReactionTorque(b) ==
    IF \E k \in 1..Len(b.supports) :
          b.supports[k].type = "fixed" /\ b.supports[k].position = Zero
    THEN Neg(Sum(AsSeq([k \in 1..Len(b.loads) |->
                          IF b.loads[k].type = "torque"
                          THEN b.loads[k].magnitude ELSE Zero])))
    ELSE Zero

\* T(x) = reaction torque + the torques at or before x
InternalTorque(b, x) == Add(ReactionTorque(b), TorquesUpTo(b, x))

\* C22: twist accumulation.  When there are torque loads, with T(x) the
\* reaction torque plus the torques at or before x, phi(x_0) = 0 and
\* phi(x_i) = phi(x_{i-1}) + (T(x_i) / (G * J)) * dx for every i >= 1, and
\* maxAngleOfTwist is the largest |phi(x_i)|.
C22_TwistAccumulation ==
    (pc = "done" /\ HasTorque(beam))
        => /\ Len(result.angleOfTwist) = points + 1
           /\ result.angleOfTwist[1].value = Zero
           /\ \A i \in 1..points :
                 result.angleOfTwist[i + 1].value
                    = Add(result.angleOfTwist[i].value,
                          Mul(Div(InternalTorque(beam, result.angleOfTwist[i + 1].x),
                                  Mul(beam.G, beam.J)),
                              Div(beam.length, R(points))))
           /\ \A i \in 1..(points + 1) :
                 Le(AbsR(result.angleOfTwist[i].value), result.maxAngleOfTwist)
           /\ \E i \in 1..(points + 1) :
                 AbsR(result.angleOfTwist[i].value) = result.maxAngleOfTwist

\* a torque on a beam whose fixed support is not at 0: the twist grows from
\* the torque on
C22_Witness ==
    /\ pc = "done" /\ HasTorque(beam) /\ HasFixed(beam)
    /\ ReactionTorque(beam) = Zero
    /\ Gt(result.maxAngleOfTwist, Zero)
    /\ result.angleOfTwist[2].value = Zero

(* C23 to C25: the inferences of the charts *)

\* every sample of the series is a finite number
Numeric(series) == \A i \in 1..Len(series) : IsFinite(series[i].value)

\* the value is the largest of the series and the position that of the first
\* sample with that value
IsFirstMax(series, value, position) ==
    /\ \A j \in 1..Len(series) : Le(series[j].value, value)
    /\ \E i \in 1..Len(series) :
          /\ series[i].value = value /\ series[i].x = position
          /\ \A j \in 1..(i - 1) : series[j].value # value

IsFirstMin(series, value, position) ==
    /\ \A j \in 1..Len(series) : Le(value, series[j].value)
    /\ \E i \in 1..Len(series) :
          /\ series[i].value = value /\ series[i].x = position
          /\ \A j \in 1..(i - 1) : series[j].value # value

Extrema(series, inference) ==
    (Len(series) > 0 /\ Numeric(series))
        => /\ IsFirstMax(series, inference.maxValue, inference.maxPosition)
           /\ IsFirstMin(series, inference.minValue, inference.minPosition)

ThroughZero(v, w) ==
    \/ Lt(v, Zero) /\ Gt(w, Zero)
    \/ Gt(v, Zero) /\ Lt(w, Zero)
    \/ v = Zero /\ w # Zero
    \/ v # Zero /\ w = Zero

\* x_i + (|v_i| / (|v_i| + |v_{i+1}|)) * (x_{i+1} - x_i)
CrossingPosition(series, i) ==
    Add(series[i].x,
        Mul(Div(AbsR(series[i].value),
                Add(AbsR(series[i].value), AbsR(series[i + 1].value))),
            Sub(series[i + 1].x, series[i].x)))

\* the indices i of the pairs (v_i, v_{i+1}) through zero, in order
CrossingPairs(series) ==
    SelectSeq(AsSeq([i \in 1..(Len(series) - 1) |-> i]),
              LAMBDA i : ThroughZero(series[i].value, series[i + 1].value))

Ascending(seq) == \A i \in 1..(Len(seq) - 1) : Le(seq[i], seq[i + 1])

\* one crossing for each pair through zero and for no other, each at its
\* position and within its pair, the list ascending
Crossings(series, inference) ==
    (Len(series) > 0 /\ Numeric(series))
        => /\ Len(inference.zeroCrossings) = Len(CrossingPairs(series))
           /\ \A k \in 1..Len(CrossingPairs(series)) :
                 /\ inference.zeroCrossings[k]
                       = CrossingPosition(series, CrossingPairs(series)[k])
                 /\ Le(series[CrossingPairs(series)[k]].x, inference.zeroCrossings[k])
                 /\ Le(inference.zeroCrossings[k], series[CrossingPairs(series)[k] + 1].x)
           /\ Ascending(inference.zeroCrossings)

\* C24: zero-crossing detection.  computeChartInference records one crossing
\* for a pair of consecutive samples (v_i, v_{i+1}) exactly when the sign
\* changes through zero: the two have strictly opposite signs, or one of the
\* two, on either side, is zero and the other is not.  Each position is
\* x_i + (|v_i| / (|v_i| + |v_{i+1}|)) * (x_{i+1} - x_i), lies in
\* [x_i, x_{i+1}], and the list is ascending.
C24_ZeroCrossings ==
    pc = "done"
        => /\ Crossings(result.shearForce, result.sfInference)
           /\ Crossings(result.bendingMoment, result.bmInference)
           /\ Crossings(result.deflection, result.deflectionInference)

\* The first value is not zero and the second is zero or of the opposite
\* sign: the pair leaves one side of zero.
LeavesSide(v, w) ==
    \/ Lt(v, Zero) /\ Ge(w, Zero)
    \/ Gt(v, Zero) /\ Le(w, Zero)

\* the indices i of the pairs (v_i, v_{i+1}) that leave one side of zero
LeavingPairs(series) ==
    SelectSeq(AsSeq([i \in 1..(Len(series) - 1) |-> i]),
              LAMBDA i : LeavesSide(series[i].value, series[i + 1].value))

CrossingsLeaving(series, inference) ==
    (Len(series) > 0 /\ Numeric(series))
        => /\ Len(inference.zeroCrossings) = Len(LeavingPairs(series))
           /\ \A k \in 1..Len(LeavingPairs(series)) :
                 /\ inference.zeroCrossings[k]
                       = CrossingPosition(series, LeavingPairs(series)[k])
                 /\ Le(series[LeavingPairs(series)[k]].x, inference.zeroCrossings[k])
                 /\ Le(inference.zeroCrossings[k], series[LeavingPairs(series)[k] + 1].x)
           /\ Ascending(inference.zeroCrossings)

\* C24, amended: computeChartInference records one crossing for a pair of
\* consecutive samples (v_i, v_{i+1}) exactly when v_i is not zero and
\* v_{i+1} is zero or of the opposite sign; a pair whose first value is zero
\* records none.  Each position is x_i + (|v_i| / (|v_i| + |v_{i+1}|)) *
\* (x_{i+1} - x_i), lies in [x_i, x_{i+1}], and the list is ascending.
C24_CrossingsLeaving ==
    pc = "done"
        => /\ CrossingsLeaving(result.shearForce, result.sfInference)
           /\ CrossingsLeaving(result.bendingMoment, result.bmInference)
           /\ CrossingsLeaving(result.deflection, result.deflectionInference)

\* a bending moment that rises from zero at the first station and comes
\* back to zero at the last: one crossing, at the last station
C24_Witness ==
    /\ pc = "done" /\ Numeric(result.bendingMoment)
    /\ result.bendingMoment[1].value = Zero
    /\ result.bendingMoment[2].value # Zero
    /\ result.bendingMoment[points].value # Zero
    /\ result.bendingMoment[points + 1].value = Zero
    /\ result.bmInference.zeroCrossings = <<beam.length>>

\* the value is the largest |v| over the samples of the series
IsLargestAbs(series, value) ==
    /\ \A i \in 1..Len(series) : Le(AbsR(series[i].value), value)
    /\ \E i \in 1..Len(series) : AbsR(series[i].value) = value

\* max(|maxValue|, |minValue|)
LargerAbs(inference) ==
    IF Ge(AbsR(inference.maxValue), AbsR(inference.minValue))
    THEN AbsR(inference.maxValue) ELSE AbsR(inference.minValue)

\* C25: the scalar maxima agree with the series.  maxShearForce is the
\* largest |V| over the 501 samples of the shear force and maxBendingMoment
\* the largest |M| over those of the bending moment, so that each is
\* max(|maxValue|, |minValue|) of its inference; and maxDeflection is
\* max(|maxValue|, |minValue|) of the inference of the deflection in every
\* branch of the deflection.
C25_ScalarMaxima ==
    pc = "done"
        => /\ Len(result.shearForce) = points + 1
           /\ Len(result.bendingMoment) = points + 1
           /\ IsLargestAbs(result.shearForce, result.maxShearForce)
           /\ IsLargestAbs(result.bendingMoment, result.maxBendingMoment)
           /\ result.maxShearForce = LargerAbs(result.sfInference)
           /\ result.maxBendingMoment = LargerAbs(result.bmInference)
           /\ result.maxDeflection = LargerAbs(result.deflectionInference)

(* C26, C27: closure at the last station *)

\* every support and every load of the beam lies within [0, L]
WithinBeam(b) ==
    /\ \A k \in 1..Len(b.supports) : OnBeam(b, b.supports[k].position)
    /\ \A k \in 1..Len(b.loads) :
          /\ OnBeam(b, b.loads[k].position)
          /\ b.loads[k].endPosition # UNDEF => OnBeam(b, b.loads[k].endPosition)

\* C26: moment closure.  For every solvable beam (one fixed support, or two
\* non-fixed supports at distinct positions) whose supports and loads lie
\* within [0, L] (and whose distributed loads have their ends given), beams
\* with applied moments and cantilevers with a reaction moment included, the
\* bending moment at the last station x = L is zero.
C26_MomentClosure ==
    (pc = "forces" /\ Solvable(beam) /\ WithinBeam(beam) /\ ExplicitEnds(beam))
        => /\ forces.bendingMoment[points + 1].x = beam.length
           /\ forces.bendingMoment[points + 1].value = Zero

\* every UDL and UVL has its end position
ExplicitEndPositions(b) ==
    \A k \in 1..Len(b.loads) :
        b.loads[k].type \in {"udl", "uvl"} => b.loads[k].endPosition # UNDEF

OpenEnded(l) == l.type \in {"udl", "uvl"} /\ l.endPosition = UNDEF

\* C28: span agreement.  For a UDL or UVL whose endPosition is absent the
\* reaction solver and the integrator use the same span: the resultant the
\* load adds to sumFy is the force it applies to the shear at the last
\* station, and on a solvable beam within [0, L] the reactions balance it
\* (the shear at the last station is zero).
C28_SpanAgreement ==
    pc = "forces"
        => \A k \in 1..Len(beam.loads) :
              OpenEnded(beam.loads[k])
                  => /\ LoadResultant(beam.loads[k], Zero)[1]
                          = Neg(LoadVM(beam.loads[k], beam.length, beam.length)[1])
                     /\ (Solvable(beam) /\ WithinBeam(beam))
                          => forces.shearForce[points + 1].value = Zero

\* C29: finite results.  For every beam the editor can produce with positive
\* length, E and I, every reaction Fy and every sample of the slope and of
\* the deflection that solveBeam returns is a finite number; two non-fixed
\* supports at one position cause no division by a span of zero.
C29_FiniteResults ==
    (pc = "done" /\ Gt(beam.length, Zero) /\ Gt(beam.E, Zero) /\ Gt(beam.I, Zero))
        => /\ \A k \in 1..Len(result.reactions) : IsFinite(result.reactions[k].Fy)
           /\ Numeric(result.slope)
           /\ Numeric(result.deflection)

\* C30: no stale result.  In every reachable state in which the analysis tab
\* is active and a result is stored, the result is solveBeam of the current
\* beam, its unit system included: nothing that can be done while the
\* analysis tab is shown changes the beam without the result being computed
\* again.
C30_NoStaleResult ==
    (activeTab = "analysis" /\ result # Null) => result = solveBeam(beam)
====
